---- MODULE Spec2Model ----
(***************************************************************************)
(* Model of the compliance-screening decision engine of hck717/comp3520:   *)
(* the name normalizer and fuzzy matcher (fuzzy_matcher.py), the country   *)
(* risk table (country_risk.py), the screening function                    *)
(* (screen_entity.py), the batch orchestrator (batch_screen.py), the risk  *)
(* scorer (score_entity.py) and the feature extractor                      *)
(* (extract_features.py).                                                  *)
(*                                                                         *)
(* Python strings are TLA+ strings; a character is a string of length 1.   *)
(* Similarity scores, which the code holds as floats, are exact rationals  *)
(* [num, den] on the 0-1 scale.                                            *)
(***************************************************************************)
EXTENDS Integers, Sequences, FiniteSets, TLC

VARIABLES
    mode,               \* which entry point this behaviour exercises
    pc,                 \* position inside the running function
    norm_arg,           \* normalize_name: the argument (a Python value)
    norm_out,           \* normalize_name: the value returned
    norm_out2,          \* normalize_name applied to its own output
    cr_code,            \* country_risk: the country_code argument
    cr_result,          \* get_country_risk: the dict returned
    cr_high,            \* is_high_risk_country: the value returned
    entity_name,        \* screen_entity: argument
    entity_country,     \* screen_entity: argument
    entity_type,        \* screen_entity: argument
    fuzzy_threshold_arg, \* screen_entity: argument fuzzy_threshold, None or a number
    check_network,      \* screen_entity: argument
    sanctions,          \* graph store: the SanctionEntity nodes, in store order
    network_path,       \* graph store: whether a path of one or two
                        \* ISSUED_LC/BENEFICIARY hops leads from the entity to
                        \* a node that is SCREENED_AGAINST a SanctionEntity
    fuzzy_threshold,    \* screen_entity: fuzzy_threshold after defaulting (line 36)
    result,             \* screen_entity: the result dict
    steps,              \* screen_entity: the queries issued and the
                        \* country-risk step, in the order they ran
    fm_query,           \* fuzzy_match_sanctions: argument query_name
    fm_list,            \* fuzzy_match_sanctions: argument sanctions_list
    fm_threshold,       \* fuzzy_match_sanctions: argument threshold, None or 0-100
    fm_result,          \* fuzzy_match_sanctions: None or (matched_entity, score)
    b_entities,         \* batch_screen: argument entities
    b_max_workers_arg,  \* batch_screen: argument max_workers, None or a number
    b_max_workers,      \* batch_screen: max_workers after defaulting (line 29)
    b_submitted,        \* batch_screen: how many entities have been submitted
    b_queue,            \* executor: submitted tasks no worker has taken yet,
                        \* as positions in entities, oldest first
    b_running,          \* executor: tasks a worker thread is executing
    b_future,           \* the state of the future of each submitted task
    b_yielded,          \* futures as_completed has handed to the loop
    b_results,          \* batch_screen: the list results
    b_error,            \* the exception batch_screen raised, if any
    b_driver_of,        \* the driver each started screen_entity call created
    b_open,             \* the drivers that are open
    b_opened,           \* how many drivers have been created
    r_model,            \* the file at model_path: "missing", "corrupt" or "ok"
    r_artifact,         \* what joblib.load gives for a file that is "ok"
    r_store,            \* graph store, for the scored entity: "fail" (the
                        \* query raises), "absent" (no such node) or "found"
    r_tx,               \* graph store: LCs of the entity in the lookback window
    r_prob,             \* model.predict_proba(X)[0][1] for the entity's features
    r_screen,           \* the recommendation screen_entity returns for the entity
    r_queries,          \* graph-store queries score_entity_risk has issued
    r_features,         \* score_entity_risk: features (its transaction_count)
    r_result,           \* score_entity_risk: the dict returned
    r_error,            \* the exception score_entity_risk raised, if any
    x_type,             \* extract_entity_features: argument entity_type
    x_present,          \* graph store: whether a node of that type has the name
    x_lcs,              \* graph store: the LCs of the entity in the window
    x_fail_at,          \* graph store: the query that raises, counted from
                        \* the first one issued, or 0 when none does
    x_queries,          \* extract_entity_features: queries issued so far
    x_driver,           \* the driver of the call: "none", "open" or "closed"
    x_locals,           \* extract_entity_features: the metrics computed so far
    x_features,         \* extract_entity_features: the dict returned
    x_error,            \* the exception extract_entity_features raised, if any
    call_pc,            \* two screen_entity calls: the position of each
    call_result         \* two screen_entity calls: the result dict of each

normVars == <<norm_arg, norm_out, norm_out2>>
crVars == <<cr_code, cr_result, cr_high>>
argVars == <<entity_name, entity_country, entity_type, fuzzy_threshold_arg,
             check_network>>
storeVars == <<sanctions, network_path>>
screenVars == <<argVars, storeVars, fuzzy_threshold, result, steps>>
fmVars == <<fm_query, fm_list, fm_threshold, fm_result>>
\* the state of the entry points other than the normalizer, the country
\* table and screen_entity
driverVars == <<b_driver_of, b_open, b_opened>>
batchVars == <<b_entities, b_max_workers_arg, b_max_workers, b_submitted,
               b_queue, b_running, b_future, b_yielded, b_results, b_error,
               driverVars>>
riskVars == <<r_model, r_artifact, r_store, r_tx, r_prob, r_screen, r_queries,
              r_features, r_result, r_error>>
extractVars == <<x_type, x_present, x_lcs, x_fail_at, x_queries, x_driver,
                 x_locals, x_features, x_error>>
callVars == <<call_pc, call_result>>
extVars == <<fmVars, batchVars, riskVars, extractVars, callVars>>
coreVars == <<normVars, crVars, screenVars>>
vars == <<mode, pc, normVars, crVars, screenVars, extVars>>

----------------------------------------------------------------------------
(* Bounds *)

\* longest name enumerated exhaustively over NameAlphabet
MaxNameLen == 4

\* longest country code enumerated exhaustively over CodeAlphabet
MaxCodeLen == 2

\* most SanctionEntity nodes in the graph store
MaxSanctions == 2

\* most entities in one batch_screen call
MaxBatch == 2

\* most LCs of the scored entity in the lookback window
MaxTx == 2

----------------------------------------------------------------------------
(* Python values and characters *)

\* a Python argument that is either None or a str
PyNone == [none |-> TRUE, str |-> ""]
PyStr(s) == [none |-> FALSE, str |-> s]

\* truth value of a str-or-None ("if not name")
truthy(v) == ~v.none /\ v.str # ""

\* F applied to the value of e. TLC passes operator arguments unevaluated;
\* binding e through a set evaluates it once, which keeps the accumulating
\* recursions below linear.
Eager(e, F(_)) == CHOOSE r \in {F(v) : v \in {e}} : TRUE

UpperLetters == "ABCDEFGHIJKLMNOPQRSTUVWXYZ"
LowerLetters == "abcdefghijklmnopqrstuvwxyz"
DigitChars == "0123456789"

Ch(s, i) == SubSeq(s, i, i)

\* 1-based position of character c in s, 0 when absent
IndexIn(c, s) ==
    IF \E i \in 1..Len(s) : Ch(s, i) = c
    THEN CHOOSE i \in 1..Len(s) : Ch(s, i) = c
    ELSE 0

\* the set of the characters of s
CharsOf(s) == {Ch(s, i) : i \in 1..Len(s)}

\* the upper-case form of each lower-case letter
UpperOf ==
    [c \in CharsOf(LowerLetters) |->
        Ch(UpperLetters, IndexIn(c, LowerLetters))] @@ <<>>

AlnumChars == CharsOf(UpperLetters \o LowerLetters \o DigitChars)

\* str.upper() on one character
upper_char(c) == IF c \in DOMAIN UpperOf THEN UpperOf[c] ELSE c

RECURSIVE upper(_)
\* str.upper()
upper(s) == IF s = "" THEN "" ELSE upper_char(Ch(s, 1)) \o upper(Tail(s))

\* str.isalnum() on one character
isalnum(c) == c \in AlnumChars

\* str.isspace() on one character
isspace(c) == c \in {" ", "\t", "\n", "\r", "\f"}

\* str.endswith(suffix)
endswith(s, suffix) ==
    /\ Len(s) >= Len(suffix)
    /\ SubSeq(s, Len(s) - Len(suffix) + 1, Len(s)) = suffix

RECURSIVE split_from(_, _, _)
\* str.split(): the maximal runs of non-whitespace characters, in order;
\* cur is the run being read, acc the runs already closed
split_from(s, cur, acc) ==
    IF s = ""
    THEN IF cur = "" THEN acc ELSE Append(acc, cur)
    ELSE IF isspace(Ch(s, 1))
         THEN Eager(IF cur = "" THEN acc ELSE Append(acc, cur),
                    LAMBDA closed : split_from(Tail(s), "", closed))
         ELSE Eager(cur \o Ch(s, 1),
                    LAMBDA run : split_from(Tail(s), run, acc))

split(s) == split_from(s, "", <<>>)

RECURSIVE join(_, _)
\* sep.join(tokens)
join(sep, tokens) ==
    IF tokens = <<>> THEN ""
    ELSE IF Len(tokens) = 1 THEN tokens[1]
    ELSE tokens[1] \o sep \o join(sep, Tail(tokens))

RECURSIVE lstrip(_)
lstrip(s) == IF s # "" /\ isspace(Ch(s, 1)) THEN lstrip(Tail(s)) ELSE s

RECURSIVE rstrip(_)
rstrip(s) ==
    IF s # "" /\ isspace(Ch(s, Len(s)))
    THEN rstrip(SubSeq(s, 1, Len(s) - 1))
    ELSE s

\* str.strip()
strip(s) == lstrip(rstrip(s))

----------------------------------------------------------------------------
(* fuzzy_matcher.normalize_name *)

suffixes == << " LTD", " LIMITED", " INC", " CORP", " CORPORATION",
               " LLC", " CO", " COMPANY", " PTE", " GMBH" >>

RECURSIVE strip_suffixes(_, _)
\* the loop "for suffix in suffixes": one pass over the list in order, each
\* suffix tested once against the name as the earlier iterations left it
strip_suffixes(name, i) ==
    IF i > Len(suffixes) THEN name
    ELSE Eager(IF endswith(name, suffixes[i])
               THEN SubSeq(name, 1, Len(name) - Len(suffixes[i]))
               ELSE name,
               LAMBDA stripped : strip_suffixes(stripped, i + 1))

\* replace_special that keeps every character
replace_special_keep(s) == s

RECURSIVE replace_special(_)
\* ''.join(c if c.isalnum() or c.isspace() else ' ' for c in name)
replace_special(s) ==
    IF s = "" THEN ""
    ELSE (IF isalnum(Ch(s, 1)) \/ isspace(Ch(s, 1)) THEN Ch(s, 1) ELSE " ")
         \o replace_special(Tail(s))

normalize_name(name) ==
    IF ~truthy(name) THEN ""
    ELSE strip(join(" ", split(replace_special(
                                  strip_suffixes(upper(name.str), 1)))))

----------------------------------------------------------------------------
(* Numbers: a Python float or int is an exact rational, None is NoneNum *)

Rat(n, d) == [none |-> FALSE, num |-> n, den |-> d]
NoneNum == [none |-> TRUE, num |-> 0, den |-> 1]

RatLT(a, b) == a.num * b.den < b.num * a.den
RatGE(a, b) == ~RatLT(a, b)
RatEQ(a, b) == a.num * b.den = b.num * a.den
RatMul(a, b) == Rat(a.num * b.num, a.den * b.den)
RatDiv(a, b) == Rat(a.num * b.den, a.den * b.num)

Max(a, b) == IF a >= b THEN a ELSE b

----------------------------------------------------------------------------
(* Inputs *)

\* characters of the exhaustively enumerated names: an upper-case and a
\* lower-case letter of the suffix " CO", a digit, a space, a tab and a
\* punctuation mark
NameAlphabet == {"C", "O", "c", "1", " ", "\t", "."}

RECURSIVE StringsOfLen(_, _)
StringsOfLen(alphabet, n) ==
    IF n = 0 THEN {""}
    ELSE {s \o c : s \in StringsOfLen(alphabet, n - 1), c \in alphabet}

StringsUpTo(alphabet, n) == UNION {StringsOfLen(alphabet, k) : k \in 0..n}

\* longer names with the suffixes and punctuation of real company names
SampleNames ==
    { "ACME CORP.", "Acme Ltd Co", "Acme Co Ltd", "ACME LTD CO", "A CO CO",
      "Tehran Trading Corp", "HSBC Hong Kong", "ACME Corporation",
      "  Acme,  Inc ", "O'Neil & Sons GmbH", "***", "LTD", " LTD",
      "Acme Pte Ltd", "ACME LIMITED COMPANY" }

\* characters of the exhaustively enumerated country codes: the letters of
\* "IR" in both cases and a letter that starts no code of the table
CodeAlphabet == {"I", "R", "i", "r", "X"}

\* codes that are not two letters
SampleCodes == {"USA", "irn", "H K", "1R", "I.R", "hk", "By", "pK", "zz"}

\* the names screen_entity is called with
ScreenNames ==
    { "bad bank", "Bad Bnk", "Acme Ltd", "Golden Dragn Tradng",
      "HSBC Hong Kong", "***" }

\* the countries screen_entity is called with: scores 10, 8, 7, 1 and an
\* unknown code
ScreenCountries == {"ir", "BY", "PK", "HK", "ZZ"}

\* fuzzy_threshold arguments: not given, and 85 on the matcher's scale
ScreenThresholds == {NoneNum, Rat(85, 1)}

\* the SanctionEntity nodes the store can hold
SanctionPool ==
    { [name |-> "Acme Ltd", list_type |-> "UN", program |-> "UNSC",
       country |-> "KP"],
      [name |-> "Bad Bank", list_type |-> "EU", program |-> "EU-RU",
       country |-> "RU"],
      [name |-> "Golden Dragon Trading", list_type |-> "OFAC",
       program |-> "SDN", country |-> "MM"],
      [name |-> "***", list_type |-> "OFAC", program |-> "SDN",
       country |-> "SY"] }

RECURSIVE SeqsOfLen(_, _)
SeqsOfLen(S, n) ==
    IF n = 0 THEN {<<>>}
    ELSE {Append(q, x) : q \in SeqsOfLen(S, n - 1), x \in S}

SeqsUpTo(S, n) == UNION {SeqsOfLen(S, k) : k \in 0..n}

\* the names fuzzy_match_sanctions is called with: ACME with no suffix and
\* with each suffix of the normalizer's list, the names of the test
\* (test_agent_skills.py), a name with two suffixes, a misspelt name, and
\* names that normalize to the empty string
FuzzyQueries ==
    {"ACME" \o suffixes[i] : i \in 1..Len(suffixes)}
        \cup { "ACME", "ACME Corp", "ACME Corporation", "ACME LTD CO",
               "Bad Bnk", "Bad Bank", "ABC Company", "***", "" }

\* the records of the list fuzzy_match_sanctions is called with
FuzzyPool ==
    { [name |-> "ACME Corporation", list_type |-> "OFAC", program |-> "SDN",
       country |-> "IR"],
      [name |-> "ACME LTD", list_type |-> "UN", program |-> "UNSC",
       country |-> "KP"],
      [name |-> "ACME", list_type |-> "EU", program |-> "EU-IR",
       country |-> "IR"],
      [name |-> "Bad Bank", list_type |-> "EU", program |-> "EU-RU",
       country |-> "RU"],
      [name |-> "BAD BANK LLC", list_type |-> "OFAC", program |-> "SDN",
       country |-> "RU"],
      [name |-> "***", list_type |-> "OFAC", program |-> "SDN",
       country |-> "SY"] }

\* threshold arguments of fuzzy_match_sanctions on the 0-100 scale: not
\* given, 85, and the 75 of the test
FuzzyThresholds == {NoneNum, Rat(85, 1), Rat(75, 1)}

\* the entity dicts batch_screen is called with. A key that is missing is
\* PyNone; screening is what screen_entity does when it is called for the
\* entity: the recommendation of the result it returns, or "fail" when the
\* graph store fails and screen_entity raises
BatchPool ==
    { [name |-> PyStr("Company 0"), country |-> PyStr("HK"),
       screening |-> "APPROVE", elapsed_ms |-> 12],
      [name |-> PyStr("Bad Bank"), country |-> PyStr("RU"),
       screening |-> "BLOCK", elapsed_ms |-> 40],
      [name |-> PyStr("Company 1"), country |-> PyStr("HK"),
       screening |-> "fail", elapsed_ms |-> 30],
      [name |-> PyStr("Company 2"), country |-> PyNone,
       screening |-> "APPROVE", elapsed_ms |-> 12],
      [name |-> PyNone, country |-> PyStr("HK"),
       screening |-> "APPROVE", elapsed_ms |-> 12],
      [name |-> PyStr("Company 3"), country |-> PyStr("HK"),
       screening |-> "APPROVE", elapsed_ms |-> 2400] }

\* max_workers arguments: not given, 1 and 2
BatchWorkers == {NoneNum, Rat(1, 1), Rat(2, 1)}

\* classifier probabilities, in hundredths: the ends of [0,1], the
\* boundaries 0.30, 0.40 and 0.70, and values on both sides of each
ProbHundredths == {0, 10, 29, 30, 31, 39, 40, 41, 55, 69, 70, 71, 100}

\* what the file at model_path can be
ModelStates == {"missing", "corrupt", "ok"}

\* what the graph store can answer for the scored entity
StoreStates == {"fail", "absent", "found"}

\* what screen_entity can recommend for the scored entity
ScreenOutcomes == {"APPROVE", "REVIEW", "BLOCK"}

\* inputs of the two concurrent calls: names, countries, and SanctionEntity
\* nodes of which two carry the same name on different lists
RepeatNames == {"bad bank", "Bad Bnk", "HSBC"}

RepeatCountries == {"ir", "HK"}

RepeatPool ==
    { [name |-> "Bad Bank", list_type |-> "EU", program |-> "EU-RU",
       country |-> "RU"],
      [name |-> "BAD BANK", list_type |-> "OFAC", program |-> "SDN",
       country |-> "RU"],
      [name |-> "Acme Ltd", list_type |-> "UN", program |-> "UNSC",
       country |-> "KP"] }

\* LC nodes of the graph: amount and payment_delay_days as stored (0 when
\* the property is absent), the boolean properties as 0 or 1,
\* document_completeness in halves (2 when the property is absent), the
\* name of the counterparty node linked to the LC ("" when there is none),
\* the risk scores of the countries of its ports, and whether one of
\* suspicious_activity, fraud_flag, aml_alert is set
LCPool ==
    { [id |-> 1, amount |-> 100, has_discrepancy |-> 0,
       shipment_delayed |-> 0, payment_delay_days |-> 0, amended |-> 0,
       completeness_halves |-> 2, counterparty |-> "S1",
       countries |-> <<3>>, flagged |-> 0],
      [id |-> 2, amount |-> 300, has_discrepancy |-> 1,
       shipment_delayed |-> 1, payment_delay_days |-> 5, amended |-> 1,
       completeness_halves |-> 1, counterparty |-> "S2",
       countries |-> <<9, 3>>, flagged |-> 1],
      [id |-> 3, amount |-> 0, has_discrepancy |-> 0,
       shipment_delayed |-> 1, payment_delay_days |-> 2, amended |-> 0,
       completeness_halves |-> 2, counterparty |-> "",
       countries |-> <<>>, flagged |-> 0],
      [id |-> 4, amount |-> 200, has_discrepancy |-> 1,
       shipment_delayed |-> 0, payment_delay_days |-> 0, amended |-> 0,
       completeness_halves |-> 0, counterparty |-> "S1",
       countries |-> <<8>>, flagged |-> 1] }

\* counterparty nodes with on_sanctions_list = true
SanctionedCounterparties == {"S2"}

\* entity types the extractor is called with
ExtractTypes == {"Buyer", "Seller", "Bank"}

\* most queries one extraction issues: the main one and four helpers
MaxQueries == 5

\* elapsed times in ms
TimeValues == {0, 501}

NormInputs ==
    {PyNone} \cup {PyStr(s) : s \in StringsUpTo(NameAlphabet, MaxNameLen) \cup SampleNames}

----------------------------------------------------------------------------
(* country_risk.py *)

COUNTRY_RISK_SCORES ==
    \* High Risk (8-10)
    "IR" :> <<10, "high">> @@ "KP" :> <<10, "high">> @@
    "SY" :> <<10, "high">> @@ "VE" :> <<9, "high">> @@
    "RU" :> <<9, "high">> @@ "BY" :> <<8, "high">> @@
    "MM" :> <<8, "high">> @@ "AF" :> <<8, "high">> @@
    \* Medium-High Risk (6-7)
    "PK" :> <<7, "medium">> @@ "YE" :> <<7, "medium">> @@
    "IQ" :> <<7, "medium">> @@ "LY" :> <<7, "medium">> @@
    "SO" :> <<7, "medium">> @@ "SD" :> <<6, "medium">> @@
    "CD" :> <<6, "medium">> @@
    \* Medium Risk (4-5)
    "TH" :> <<5, "medium">> @@ "PH" :> <<5, "medium">> @@
    "BD" :> <<5, "medium">> @@ "NG" :> <<5, "medium">> @@
    "KE" :> <<4, "medium">> @@ "IN" :> <<4, "medium">> @@
    "TR" :> <<4, "medium">> @@ "BR" :> <<4, "medium">> @@
    "ZA" :> <<4, "medium">> @@
    \* Low-Medium Risk (3)
    "CN" :> <<3, "low">> @@ "MX" :> <<3, "low">> @@
    "ID" :> <<3, "low">> @@ "AE" :> <<3, "low">> @@
    "SA" :> <<3, "low">> @@
    \* Low Risk (1-2)
    "US" :> <<1, "low">> @@ "GB" :> <<1, "low">> @@
    "DE" :> <<1, "low">> @@ "FR" :> <<1, "low">> @@
    "JP" :> <<1, "low">> @@ "SG" :> <<1, "low">> @@
    "HK" :> <<1, "low">> @@ "AU" :> <<1, "low">> @@
    "CA" :> <<1, "low">> @@ "CH" :> <<1, "low">> @@
    "NL" :> <<1, "low">> @@ "SE" :> <<1, "low">> @@
    "NO" :> <<1, "low">> @@ "DK" :> <<1, "low">> @@
    "NZ" :> <<1, "low">> @@ "KR" :> <<2, "low">> @@
    "TW" :> <<2, "low">> @@ "MY" :> <<2, "low">>

\* the codes get_country_risk is called with: every key of the table, every
\* string over CodeAlphabet up to MaxCodeLen, and the sample codes
CountryInputs ==
    DOMAIN COUNTRY_RISK_SCORES \cup StringsUpTo(CodeAlphabet, MaxCodeLen)
        \cup SampleCodes

\* get_country_risk without country_code.upper()
get_country_risk_cased(country_code) ==
    IF country_code \notin DOMAIN COUNTRY_RISK_SCORES
    THEN [country |-> country_code, risk_score |-> 5,
          risk_level |-> "medium", known |-> FALSE]
    ELSE [country |-> country_code,
          risk_score |-> COUNTRY_RISK_SCORES[country_code][1],
          risk_level |-> COUNTRY_RISK_SCORES[country_code][2],
          known |-> TRUE]

get_country_risk(country_code) ==
    LET code == upper(country_code)
    IN  IF code \notin DOMAIN COUNTRY_RISK_SCORES
        THEN [country |-> code, risk_score |-> 5,
              risk_level |-> "medium", known |-> FALSE]
        ELSE [country |-> code,
              risk_score |-> COUNTRY_RISK_SCORES[code][1],
              risk_level |-> COUNTRY_RISK_SCORES[code][2],
              known |-> TRUE]

\* is_high_risk_country with config.HIGH_RISK_COUNTRY_SCORE (7) as the bar
is_high_risk_country_bar7(country_code) ==
    LET risk == get_country_risk(country_code)
    IN  risk.risk_score >= 7

is_high_risk_country(country_code) ==
    LET risk == get_country_risk(country_code)
    IN  risk.risk_score >= 8

----------------------------------------------------------------------------
----------------------------------------------------------------------------
(* config.py *)

\* FUZZY_THRESHOLD: float = 0.85
FUZZY_THRESHOLD == Rat(85, 100)

FUZZY_ALGORITHM == "token_sort_ratio"

----------------------------------------------------------------------------
(* rapidfuzz, as fuzzy_matcher.py calls it *)

RECURSIVE lcs_next_row(_, _, _, _)
\* one row of the longest-common-subsequence table: cur[j + 1] is the LCS
\* length of the prefix ending in character c with the first j characters
\* of b, prev the row of the prefix without c
lcs_next_row(c, b, prev, cur) ==
    LET j == Len(cur)
    IN  IF j > Len(b) THEN cur
        ELSE Eager(Append(cur, IF Ch(b, j) = c
                               THEN prev[j] + 1
                               ELSE Max(prev[j + 1], cur[j])),
                   LAMBDA next : lcs_next_row(c, b, prev, next))

RECURSIVE lcs_rows(_, _, _)
lcs_rows(a, b, prev) ==
    IF a = "" THEN prev[Len(b) + 1]
    ELSE Eager(lcs_next_row(Ch(a, 1), b, prev, <<0>>),
               LAMBDA row : lcs_rows(Tail(a), b, row))

\* length of the longest common subsequence of a and b
lcs_len(a, b) == lcs_rows(a, b, [j \in 1..(Len(b) + 1) |-> 0])

\* fuzz.ratio on the 0-100 scale: the normalized InDel similarity,
\* 100 * 2 * LCS / (len(a) + len(b)), and 100 for two empty strings
fuzz_ratio(a, b) ==
    IF Len(a) + Len(b) = 0 THEN Rat(100, 1)
    ELSE Rat(100 * 2 * lcs_len(a, b), Len(a) + Len(b))

\* position of each alphanumeric character in code-point order
CharOrd ==
    [c \in AlnumChars |->
        IndexIn(c, DigitChars \o UpperLetters \o LowerLetters)] @@ <<>>

\* position of character c in code-point order (the characters a token of
\* a normalized name can hold)
char_ord(c) == CharOrd[c]

RECURSIVE str_less(_, _)
\* a < b on Python strings (lexicographic by code point)
str_less(a, b) ==
    IF b = "" THEN FALSE
    ELSE IF a = "" THEN TRUE
    ELSE IF Ch(a, 1) = Ch(b, 1) THEN str_less(Tail(a), Tail(b))
    ELSE char_ord(Ch(a, 1)) < char_ord(Ch(b, 1))

RECURSIVE insert_sorted(_, _)
insert_sorted(tokens, t) ==
    IF tokens = <<>> THEN <<t>>
    ELSE IF str_less(t, tokens[1]) THEN <<t>> \o tokens
    ELSE <<tokens[1]>> \o insert_sorted(Tail(tokens), t)

RECURSIVE sorted(_)
\* sorted(tokens)
sorted(tokens) ==
    IF tokens = <<>> THEN <<>>
    ELSE insert_sorted(sorted(SubSeq(tokens, 1, Len(tokens) - 1)),
                       tokens[Len(tokens)])

\* fuzz.token_sort_ratio: ratio of the two strings with their
\* whitespace-separated tokens sorted
fuzz_token_sort_ratio(a, b) ==
    Eager(join(" ", sorted(split(a))),
          LAMBDA sorted_a :
             Eager(join(" ", sorted(split(b))),
                   LAMBDA sorted_b : fuzz_ratio(sorted_a, sorted_b)))

\* the scorer fuzzy_match_sanctions selects from config.FUZZY_ALGORITHM
\* (partial_ratio is not selected by the configuration and is not modelled)
scorer(a, b) ==
    IF FUZZY_ALGORITHM = "ratio" THEN fuzz_ratio(a, b)
    ELSE fuzz_token_sort_ratio(a, b)

NoMatch == [found |-> FALSE, index |-> 0, score |-> NoneNum]

RECURSIVE extract_from_last(_, _, _, _, _)
\* extract_from in which a choice also replaces a best of equal score, so
\* the last of equal top scores is kept
extract_from_last(query, choices, score_cutoff, i, best) ==
    IF i > Len(choices) THEN best
    ELSE LET score == Eager(scorer(query, choices[i]), LAMBDA v : v)
             better == /\ RatGE(score, score_cutoff)
                       /\ (~best.found \/ RatGE(score, best.score))
         IN  Eager(IF better
                   THEN [found |-> TRUE, index |-> i, score |-> score]
                   ELSE best,
                   LAMBDA b : extract_from_last(query, choices, score_cutoff,
                                                i + 1, b))

RECURSIVE extract_from(_, _, _, _, _)
\* the scan of process.extractOne from choice i on: a choice replaces the
\* best so far only when its score reaches the cutoff and is strictly
\* greater than the best score, so the first of equal top scores is kept
extract_from(query, choices, score_cutoff, i, best) ==
    IF i > Len(choices) THEN best
    ELSE LET score == Eager(scorer(query, choices[i]), LAMBDA v : v)
             better == /\ RatGE(score, score_cutoff)
                       /\ (~best.found \/ RatLT(best.score, score))
         IN  Eager(IF better
                   THEN [found |-> TRUE, index |-> i, score |-> score]
                   ELSE best,
                   LAMBDA b : extract_from(query, choices, score_cutoff,
                                           i + 1, b))

\* process.extractOne(query, choices, scorer=scorer, score_cutoff=...)
extractOne(query, choices, score_cutoff) ==
    extract_from(query, choices, score_cutoff, 1, NoMatch)

----------------------------------------------------------------------------
(* fuzzy_matcher.fuzzy_match_sanctions *)

\* returns NoMatch for None, else the index of the matched record in
\* sanctions_list and the score on the 0-1 scale
fuzzy_match_sanctions(query_name, sanctions_list, threshold) ==
    LET thr == IF threshold.none
               THEN RatMul(FUZZY_THRESHOLD, Rat(100, 1))
               ELSE threshold
        normalized_query == normalize_name(query_name)
        sanctions_names ==
            [i \in 1..Len(sanctions_list) |->
                normalize_name(PyStr(sanctions_list[i].name))]
    IN  IF normalized_query = "" THEN NoMatch
        ELSE Eager(extractOne(normalized_query, sanctions_names, thr),
                   LAMBDA extracted :
                      IF ~extracted.found THEN NoMatch
                      ELSE [found |-> TRUE, index |-> extracted.index,
                            score |-> RatDiv(extracted.score, Rat(100, 1))])

----------------------------------------------------------------------------
(* screen_entity.py: the steps of screen_entity as functions of the result *)

\* lines 39-54
InitialResult(name, country, type) ==
    [ entity_name |-> name,
      entity_country |-> country,
      entity_type |-> type,
      sanctions_match |-> FALSE,
      match_type |-> PyNone,
      matched_entity |-> PyNone,
      match_score |-> NoneNum,
      sanctions_list |-> PyNone,
      program |-> PyNone,
      country_risk |-> PyNone,
      country_risk_score |-> NoneNum,
      network_exposure |-> FALSE,
      recommendation |-> "APPROVE",
      screening_time_ms |-> NoneNum ]

\* rows of "MATCH (s:SanctionEntity) WHERE toUpper(s.name) = $name"
ExactRows(store, name) ==
    {i \in 1..Len(store) : upper(store[i].name) = name}

\* ExactUpdate that leaves match_score as it was
ExactUpdate_unscored(res, row) ==
    [res EXCEPT !.sanctions_match = TRUE,
                !.match_type = PyStr("exact"),
                !.matched_entity = PyStr(row.name),
                !.sanctions_list = PyStr(row.list_type),
                !.program = PyStr(row.program),
                !.recommendation = "BLOCK"]

\* lines 75-83
ExactUpdate(res, row) ==
    [res EXCEPT !.sanctions_match = TRUE,
                !.match_type = PyStr("exact"),
                !.matched_entity = PyStr(row.name),
                !.match_score = Rat(1, 1),
                !.sanctions_list = PyStr(row.list_type),
                !.program = PyStr(row.program),
                !.recommendation = "BLOCK"]

\* FuzzyUpdate with the boundary 0.95 on the REVIEW side
FuzzyUpdate_boundary(res, matched_entity, score) ==
    [res EXCEPT !.sanctions_match = TRUE,
                !.match_type = PyStr("fuzzy"),
                !.matched_entity = PyStr(matched_entity.name),
                !.match_score = score,
                !.sanctions_list = PyStr(matched_entity.list_type),
                !.program = PyStr(matched_entity.program),
                !.recommendation =
                    IF RatGE(Rat(95, 100), score) THEN "REVIEW" ELSE "BLOCK"]

\* lines 98-108
FuzzyUpdate(res, matched_entity, score) ==
    [res EXCEPT !.sanctions_match = TRUE,
                !.match_type = PyStr("fuzzy"),
                !.matched_entity = PyStr(matched_entity.name),
                !.match_score = score,
                !.sanctions_list = PyStr(matched_entity.list_type),
                !.program = PyStr(matched_entity.program),
                !.recommendation =
                    IF RatLT(score, Rat(95, 100)) THEN "REVIEW" ELSE "BLOCK"]

\* NetworkUpdate without the "not result['sanctions_match']" guard
NetworkUpdate_unguarded(res, check, path) ==
    IF check /\ path
    THEN [res EXCEPT !.network_exposure = TRUE, !.recommendation = "REVIEW"]
    ELSE res

\* the network query is issued whenever check_network is true
network_query_issued_unguarded(res, check) == check

\* line 111: whether the network query is issued
network_query_issued(res, check) == check /\ ~res.sanctions_match

\* lines 111-122
NetworkUpdate(res, check, path) ==
    IF network_query_issued(res, check)
    THEN IF path
         THEN [res EXCEPT !.network_exposure = TRUE,
                          !.recommendation = "REVIEW"]
         ELSE res
    ELSE res

\* CountryUpdate that sets REVIEW for a high-risk country whatever the
\* recommendation was
CountryUpdate_overwrite(res, country) ==
    LET country_risk_info == get_country_risk(country)
        r == [res EXCEPT
                !.country_risk = PyStr(country_risk_info.risk_level),
                !.country_risk_score = Rat(country_risk_info.risk_score, 1)]
    IN  IF country_risk_info.risk_score >= 8
        THEN [r EXCEPT !.recommendation = "REVIEW"]
        ELSE r

\* CountryUpdate with config.HIGH_RISK_COUNTRY_SCORE (7) as the bar
CountryUpdate_bar7(res, country) ==
    LET country_risk_info == get_country_risk(country)
        r == [res EXCEPT
                !.country_risk = PyStr(country_risk_info.risk_level),
                !.country_risk_score = Rat(country_risk_info.risk_score, 1)]
    IN  IF country_risk_info.risk_score >= 7 /\ r.recommendation = "APPROVE"
        THEN [r EXCEPT !.recommendation = "REVIEW"]
        ELSE r

\* lines 125-131
CountryUpdate(res, country) ==
    LET country_risk_info == get_country_risk(country)
        r == [res EXCEPT
                !.country_risk = PyStr(country_risk_info.risk_level),
                !.country_risk_score = Rat(country_risk_info.risk_score, 1)]
    IN  IF country_risk_info.risk_score >= 8 /\ r.recommendation = "APPROVE"
        THEN [r EXCEPT !.recommendation = "REVIEW"]
        ELSE r

----------------------------------------------------------------------------
(* Specification of the normalizer: normalize_name is applied to an input, *)
(* then to its own output                                                  *)

NoStr == "<unset>"
NoDict == [country |-> NoStr, risk_score |-> 0, risk_level |-> NoStr,
           known |-> FALSE]

NormIdle ==
    /\ norm_arg = PyNone
    /\ norm_out = NoStr
    /\ norm_out2 = NoStr

CrIdle ==
    /\ cr_code = NoStr
    /\ cr_result = NoDict
    /\ cr_high = FALSE

ScreenIdle ==
    /\ entity_name = NoStr
    /\ entity_country = NoStr
    /\ entity_type = NoStr
    /\ fuzzy_threshold_arg = NoneNum
    /\ check_network = FALSE
    /\ sanctions = <<>>
    /\ network_path = FALSE
    /\ fuzzy_threshold = NoneNum
    /\ result = InitialResult(NoStr, NoStr, NoStr)
    /\ steps = <<>>

\* a sanctions record that is not there
NoEntity == [name |-> NoStr, list_type |-> NoStr, program |-> NoStr,
             country |-> NoStr]

\* the value None of fuzzy_match_sanctions
FmNone == [none |-> TRUE, entity |-> NoEntity, score |-> NoneNum]

FmIdle ==
    /\ fm_query = NoStr
    /\ fm_list = <<>>
    /\ fm_threshold = NoneNum
    /\ fm_result = FmNone

BatchIdle ==
    /\ b_entities = <<>>
    /\ b_max_workers_arg = NoneNum
    /\ b_max_workers = 0
    /\ b_submitted = 0
    /\ b_queue = <<>>
    /\ b_running = {}
    /\ b_future = <<>>
    /\ b_yielded = {}
    /\ b_results = <<>>
    /\ b_error = NoStr
    /\ b_driver_of = <<>>
    /\ b_open = {}
    /\ b_opened = 0

\* no dict returned by score_entity_risk
NoRisk == [none |-> TRUE, risk_score |-> NoneNum, risk_level |-> NoStr,
           recommendation |-> NoStr, keys |-> {}]

\* no object loaded from model_path
NoArtifact == [kind |-> NoStr, feature_cols |-> <<>>]

RiskIdle ==
    /\ r_model = NoStr
    /\ r_artifact = NoArtifact
    /\ r_store = NoStr
    /\ r_tx = 0
    /\ r_prob = NoneNum
    /\ r_screen = NoStr
    /\ r_queries = 0
    /\ r_features = NoneNum
    /\ r_result = NoRisk
    /\ r_error = NoStr

ExtractIdle ==
    /\ x_type = NoStr
    /\ x_present = FALSE
    /\ x_lcs = {}
    /\ x_fail_at = 0
    /\ x_queries = 0
    /\ x_driver = "none"
    /\ x_locals = <<>>
    /\ x_features = <<>>
    /\ x_error = NoStr

CallsIdle ==
    /\ call_pc = <<>>
    /\ call_result = <<>>

ExtIdle == FmIdle /\ BatchIdle /\ RiskIdle /\ ExtractIdle /\ CallsIdle

InitNorm ==
    /\ mode = "normalize"
    /\ pc = "call"
    /\ norm_arg \in NormInputs
    /\ norm_out = NoStr
    /\ norm_out2 = NoStr
    /\ CrIdle
    /\ ScreenIdle
    /\ ExtIdle

NormalizeCall ==
    /\ mode = "normalize" /\ pc = "call"
    /\ norm_out' = normalize_name(norm_arg)
    /\ pc' = "again"
    /\ UNCHANGED <<mode, extVars, norm_arg, norm_out2, crVars, screenVars>>

NormalizeAgain ==
    /\ mode = "normalize" /\ pc = "again"
    /\ norm_out2' = normalize_name(PyStr(norm_out))
    /\ pc' = "done"
    /\ UNCHANGED <<mode, extVars, norm_arg, norm_out, crVars, screenVars>>

NextNorm == NormalizeCall \/ NormalizeAgain

SpecNorm == InitNorm /\ [][NextNorm]_vars

----------------------------------------------------------------------------
(* Specification of the country risk table: get_country_risk and           *)
(* is_high_risk_country are called on a country code                       *)

InitCountry ==
    /\ mode = "country"
    /\ pc = "call"
    /\ cr_code \in CountryInputs
    /\ cr_result = NoDict
    /\ cr_high = FALSE
    /\ NormIdle
    /\ ScreenIdle
    /\ ExtIdle

GetCountryRisk ==
    /\ mode = "country" /\ pc = "call"
    /\ cr_result' = get_country_risk(cr_code)
    /\ pc' = "risk"
    /\ UNCHANGED <<mode, extVars, cr_code, cr_high, normVars, screenVars>>

IsHighRiskCountry ==
    /\ mode = "country" /\ pc = "risk"
    /\ cr_high' = is_high_risk_country(cr_code)
    /\ pc' = "done"
    /\ UNCHANGED <<mode, extVars, cr_code, cr_result, normVars, screenVars>>

NextCountry == GetCountryRisk \/ IsHighRiskCountry

SpecCountry == InitCountry /\ [][NextCountry]_vars

----------------------------------------------------------------------------
(* Specification of screen_entity: one call, step by step, against a       *)
(* graph store that does not change during the call                        *)

Init ==
    /\ mode = "screen"
    /\ pc = "start"
    /\ entity_name \in ScreenNames
    /\ entity_country \in ScreenCountries
    /\ entity_type = "Entity"
    /\ fuzzy_threshold_arg \in ScreenThresholds
    /\ check_network \in BOOLEAN
    /\ sanctions \in SeqsUpTo(SanctionPool, MaxSanctions)
    /\ network_path \in BOOLEAN
    /\ fuzzy_threshold = NoneNum
    /\ result = InitialResult(NoStr, NoStr, NoStr)
    /\ steps = <<>>
    /\ NormIdle
    /\ CrIdle
    /\ ExtIdle

\* lines 33-60: default the threshold, initialize the result
Begin ==
    /\ mode = "screen" /\ pc = "start"
    /\ fuzzy_threshold' = IF fuzzy_threshold_arg.none THEN FUZZY_THRESHOLD
                                            ELSE fuzzy_threshold_arg
    /\ result' = InitialResult(entity_name, entity_country, entity_type)
    /\ steps' = <<>>
    /\ pc' = "exact"
    /\ UNCHANGED <<mode, extVars, normVars, crVars, argVars, storeVars>>

\* lines 64-83, Step 1: the exact query returns any one matching row
ExactMatch ==
    /\ mode = "screen" /\ pc = "exact"
    /\ LET normalized_name == normalize_name(PyStr(entity_name))
           rows == ExactRows(sanctions, normalized_name)
       IN  IF rows # {}
           THEN /\ \E i \in rows : result' = ExactUpdate(result, sanctions[i])
                /\ pc' = "network"
           ELSE /\ result' = result
                /\ pc' = "fuzzy"
    /\ steps' = Append(steps, "exact")
    /\ UNCHANGED <<mode, extVars, normVars, crVars, argVars, storeVars,
                   fuzzy_threshold>>

\* lines 85-108, Step 2
FuzzyMatch ==
    /\ mode = "screen" /\ pc = "fuzzy"
    /\ result' = Eager(fuzzy_match_sanctions(PyStr(entity_name), sanctions,
                                             fuzzy_threshold),
                       LAMBDA fuzzy_result :
                          IF fuzzy_result.found
                          THEN FuzzyUpdate(result,
                                           sanctions[fuzzy_result.index],
                                           fuzzy_result.score)
                          ELSE result)
    /\ steps' = Append(steps, "fuzzy")
    /\ pc' = "network"
    /\ UNCHANGED <<mode, extVars, normVars, crVars, argVars, storeVars,
                   fuzzy_threshold>>

\* lines 110-122, Step 3
NetworkExposure ==
    /\ mode = "screen" /\ pc = "network"
    /\ result' = NetworkUpdate(result, check_network, network_path)
    /\ steps' = IF network_query_issued(result, check_network)
                THEN Append(steps, "network") ELSE steps
    /\ pc' = "country"
    /\ UNCHANGED <<mode, extVars, normVars, crVars, argVars, storeVars,
                   fuzzy_threshold>>

\* lines 124-131, Step 4
CountryRisk ==
    /\ mode = "screen" /\ pc = "country"
    /\ result' = CountryUpdate(result, entity_country)
    /\ steps' = Append(steps, "country")
    /\ pc' = "return"
    /\ UNCHANGED <<mode, extVars, normVars, crVars, argVars, storeVars,
                   fuzzy_threshold>>

\* lines 133-140
Return ==
    /\ mode = "screen" /\ pc = "return"
    /\ \E t \in TimeValues :
          result' = [result EXCEPT !.screening_time_ms = Rat(t, 1)]
    /\ pc' = "done"
    /\ UNCHANGED <<mode, extVars, normVars, crVars, argVars, storeVars,
                   fuzzy_threshold, steps>>

Next ==
    \/ Begin
    \/ ExactMatch
    \/ FuzzyMatch
    \/ NetworkExposure
    \/ CountryRisk
    \/ Return

Spec == Init /\ [][Next]_vars

----------------------------------------------------------------------------
(* Specification of the fuzzy matcher: fuzzy_match_sanctions is called on  *)
(* a query name, a list of records and a threshold                         *)

InitFuzzy ==
    /\ mode = "fuzzy"
    /\ pc = "call"
    /\ fm_query \in FuzzyQueries
    /\ fm_list \in SeqsUpTo(FuzzyPool, MaxSanctions)
    /\ fm_threshold \in FuzzyThresholds
    /\ fm_result = FmNone
    /\ NormIdle
    /\ CrIdle
    /\ ScreenIdle
    /\ BatchIdle
    /\ RiskIdle
    /\ ExtractIdle
    /\ CallsIdle

\* lines 57-93: the record at the matched position and the score, or None
FuzzyMatchSanctions ==
    /\ mode = "fuzzy" /\ pc = "call"
    /\ LET matched == fuzzy_match_sanctions(PyStr(fm_query), fm_list,
                                            fm_threshold)
       IN  fm_result' = IF matched.found
                        THEN [none |-> FALSE,
                              entity |-> fm_list[matched.index],
                              score |-> matched.score]
                        ELSE FmNone
    /\ pc' = "done"
    /\ UNCHANGED <<mode, coreVars, batchVars, riskVars, extractVars, callVars,
                   fm_query, fm_list,
                   fm_threshold>>

NextFuzzy == FuzzyMatchSanctions

SpecFuzzy == InitFuzzy /\ [][NextFuzzy]_vars

----------------------------------------------------------------------------
(* batch_screen.py *)

\* MAX_WORKERS: int = 10
MAX_WORKERS == 10

\* TIMEOUT_MS: int = 500
TIMEOUT_MS == 500

\* screen_task calls screen_entity: both keys of the entity could be read
calls_screen_entity(entity) == ~entity.name.none /\ ~entity.country.none

\* one driver, created once, that every call uses
shared_driver(opened) == 1

\* screen_entity.py lines 57-60: the call creates a driver of its own
new_driver(opened) == opened + 1

\* lines 34-39: the result screen_task returns or the exception it raises
screen_task(entity) ==
    IF entity.name.none
    THEN [raised |-> TRUE, exception |-> "KeyError: 'name'",
          result |-> [entity_name |-> NoStr, recommendation |-> NoStr,
                      error |-> PyNone, screening_time_ms |-> NoneNum]]
    ELSE IF entity.country.none
    THEN [raised |-> TRUE, exception |-> "KeyError: 'country'",
          result |-> [entity_name |-> NoStr, recommendation |-> NoStr,
                      error |-> PyNone, screening_time_ms |-> NoneNum]]
    ELSE IF entity.screening = "fail"
    THEN [raised |-> TRUE, exception |-> "ServiceUnavailable",
          result |-> [entity_name |-> NoStr, recommendation |-> NoStr,
                      error |-> PyNone, screening_time_ms |-> NoneNum]]
    ELSE [raised |-> FALSE, exception |-> NoStr,
          result |-> [entity_name |-> entity.name.str,
                      recommendation |-> entity.screening,
                      error |-> PyNone,
                      screening_time_ms |-> Rat(entity.elapsed_ms, 1)]]

\* a worker may take a task whatever the number of running tasks
can_start_unbounded(running, max_workers) == TRUE

\* line 42, ThreadPoolExecutor(max_workers=max_workers): the pool has at
\* most max_workers threads and a thread executes one task at a time, so a
\* task starts only while fewer than max_workers tasks are running
can_start(running, max_workers) == Cardinality(running) < max_workers

\* lines 54-60, the except branch: the ERROR result, or the KeyError that
\* entity['name'] raises inside the handler
error_result(entity, exception) ==
    IF entity.name.none
    THEN [raised |-> TRUE, exception |-> "KeyError: 'name'",
          result |-> [entity_name |-> NoStr, recommendation |-> NoStr,
                      error |-> PyNone, screening_time_ms |-> NoneNum]]
    ELSE [raised |-> FALSE, exception |-> NoStr,
          result |-> [entity_name |-> entity.name.str,
                      recommendation |-> "ERROR",
                      error |-> PyStr(exception),
                      screening_time_ms |-> NoneNum]]

----------------------------------------------------------------------------
(* Specification of batch_screen: the main thread submits every entity,    *)
(* collects the futures as they complete and logs the summary, while the   *)
(* worker threads of the executor execute the tasks                        *)

InitBatch ==
    /\ mode = "batch"
    /\ pc = "start"
    /\ b_entities \in SeqsUpTo(BatchPool, MaxBatch)
    /\ b_max_workers_arg \in BatchWorkers
    /\ b_max_workers = 0
    /\ b_submitted = 0
    /\ b_queue = <<>>
    /\ b_running = {}
    /\ b_future = <<>>
    /\ b_yielded = {}
    /\ b_results = <<>>
    /\ b_error = NoStr
    /\ b_driver_of = <<>>
    /\ b_open = {}
    /\ b_opened = 0
    /\ NormIdle
    /\ CrIdle
    /\ ScreenIdle
    /\ FmIdle
    /\ RiskIdle
    /\ ExtractIdle
    /\ CallsIdle

\* lines 28-31
BatchBegin ==
    /\ mode = "batch" /\ pc = "start"
    /\ b_max_workers' = IF b_max_workers_arg.none THEN MAX_WORKERS
                                                  ELSE b_max_workers_arg.num
    /\ b_results' = <<>>
    /\ pc' = "submit"
    /\ UNCHANGED <<mode, coreVars, fmVars, riskVars, extractVars, callVars, driverVars,
                   b_entities, b_max_workers_arg,
                   b_submitted, b_queue, b_running, b_future, b_yielded,
                   b_error>>

\* line 43: executor.submit for the next entity, or the end of the
\* comprehension
Submit ==
    /\ mode = "batch" /\ pc = "submit"
    /\ IF b_submitted < Len(b_entities)
       THEN /\ b_submitted' = b_submitted + 1
            /\ b_queue' = Append(b_queue, b_submitted + 1)
            /\ b_future' = Append(b_future, "pending")
            /\ pc' = pc
       ELSE /\ pc' = "collect"
            /\ UNCHANGED <<b_submitted, b_queue, b_future>>
    /\ UNCHANGED <<mode, coreVars, fmVars, riskVars, extractVars, callVars, driverVars,
                   b_entities, b_max_workers_arg,
                   b_max_workers, b_running, b_yielded, b_results, b_error>>

\* a worker thread takes the oldest queued task and runs screen_task up
\* to the creation of the driver (screen_entity.py lines 33-60), when the
\* entity has the keys the call needs
StartTask ==
    /\ mode = "batch"
    /\ b_queue # <<>>
    /\ can_start(b_running, b_max_workers)
    /\ b_running' = b_running \cup {Head(b_queue)}
    /\ b_queue' = Tail(b_queue)
    /\ b_future' = [b_future EXCEPT ![Head(b_queue)] = "running"]
    /\ IF calls_screen_entity(b_entities[Head(b_queue)])
       THEN /\ b_opened' = b_opened + 1
            /\ b_driver_of' =
                   b_driver_of @@ (Head(b_queue) :> new_driver(b_opened))
            /\ b_open' = b_open \cup {new_driver(b_opened)}
       ELSE UNCHANGED driverVars
    /\ UNCHANGED <<mode, pc, coreVars, fmVars, riskVars, extractVars, callVars,
                   b_entities, b_max_workers_arg, b_max_workers, b_submitted,
                   b_yielded, b_results, b_error>>

\* a worker thread finishes screen_task: the queries have returned or
\* raised, the finally block has closed the driver of the call
\* (screen_entity.py lines 133-134), and the future holds the result or the
\* exception
FinishTask ==
    /\ mode = "batch"
    /\ \E i \in b_running :
          /\ b_running' = b_running \ {i}
          /\ b_future' = [b_future EXCEPT ![i] =
                            IF screen_task(b_entities[i]).raised
                            THEN "exception" ELSE "result"]
          /\ b_open' = IF i \in DOMAIN b_driver_of
                       THEN b_open \ {b_driver_of[i]}
                       ELSE b_open
    /\ UNCHANGED <<mode, pc, coreVars, fmVars, riskVars, extractVars, callVars,
                   b_entities, b_max_workers_arg, b_max_workers, b_submitted,
                   b_queue, b_yielded, b_results, b_error, b_driver_of,
                   b_opened>>

\* lines 49-60: one iteration of the loop over as_completed(futures), for
\* any completed future not yet handed out; an exception raised inside
\* the except branch leaves the loop
Collect ==
    /\ mode = "batch" /\ pc = "collect"
    /\ \E i \in 1..Len(b_entities) :
          /\ i \notin b_yielded
          /\ b_future[i] \in {"result", "exception"}
          /\ b_yielded' = b_yielded \cup {i}
          /\ LET task == screen_task(b_entities[i])
                 outcome == IF task.raised
                            THEN error_result(b_entities[i], task.exception)
                            ELSE task
             IN  IF outcome.raised
                 THEN /\ b_error' = outcome.exception
                      /\ pc' = "unwind"
                      /\ b_results' = b_results
                 ELSE /\ b_results' = Append(b_results, outcome.result)
                      /\ UNCHANGED <<pc, b_error>>
    /\ UNCHANGED <<mode, coreVars, fmVars, riskVars, extractVars, callVars, driverVars,
                   b_entities, b_max_workers_arg,
                   b_max_workers, b_submitted, b_queue, b_running, b_future>>

\* line 49: as_completed is exhausted and the loop ends
EndLoop ==
    /\ mode = "batch" /\ pc = "collect"
    /\ b_yielded = 1..Len(b_entities)
    /\ pc' = "exit"
    /\ UNCHANGED <<mode, coreVars, fmVars, riskVars, extractVars, callVars, batchVars>>

\* line 42, the end of the with block: shutdown(wait=True) returns when
\* every submitted task has finished; an exception on its way out of the
\* block goes on to the caller
ExitExecutor ==
    /\ mode = "batch" /\ pc \in {"exit", "unwind"}
    /\ b_queue = <<>> /\ b_running = {}
    /\ pc' = IF pc = "exit" THEN "summary" ELSE "raised"
    /\ UNCHANGED <<mode, coreVars, fmVars, riskVars, extractVars, callVars, batchVars>>

\* lines 62-73: blocked/total raises ZeroDivisionError when results is
\* empty
Summary ==
    /\ mode = "batch" /\ pc = "summary"
    /\ IF Len(b_results) = 0
       THEN b_error' = "ZeroDivisionError" /\ pc' = "raised"
       ELSE b_error' = b_error /\ pc' = "returned"
    /\ UNCHANGED <<mode, coreVars, fmVars, riskVars, extractVars, callVars, driverVars,
                   b_entities, b_max_workers_arg,
                   b_max_workers, b_submitted, b_queue, b_running, b_future,
                   b_yielded, b_results>>

NextBatch ==
    \/ BatchBegin
    \/ Submit
    \/ StartTask
    \/ FinishTask
    \/ Collect
    \/ EndLoop
    \/ ExitExecutor
    \/ Summary

SpecBatch == InitBatch /\ [][NextBatch]_vars

\* the worker threads keep running: a task that can start starts and a
\* running task finishes
SpecBatchFair ==
    InitBatch /\ [][NextBatch]_vars /\ WF_vars(StartTask) /\ WF_vars(FinishTask)

----------------------------------------------------------------------------
(* score_entity.py and extract_features.py *)

\* check_model that goes on to the feature extraction whatever the file is
check_model_late(model) == "extract"

\* score_entity.py lines 49-52: the next position, "raised" when
\* Path(model_path).exists() is false
check_model(model) == IF model = "missing" THEN "raised" ELSE "load"

\* extract_features.py lines 79-84 and 138-140: transaction_count of the
\* features; the defaults, with transaction_count 0, when the entity is
\* absent or a query raises
transaction_count(store, tx) == IF store = "found" THEN tx ELSE 0

\* score_entity.py lines 12-25
FEATURE_COLUMNS ==
    << "transaction_count", "total_exposure", "avg_lc_amount",
       "discrepancy_rate", "late_shipment_rate", "payment_delay_avg",
       "counterparty_diversity", "high_risk_country_exposure",
       "sanctions_exposure", "doc_completeness", "amendment_rate",
       "fraud_flags" >>

\* train_model.py lines 53-57: the columns of the training CSV that are not
\* the label, the entity name or the transaction id, in the CSV's order
feature_cols_of(columns) ==
    SelectSeq(columns,
              LAMBDA col : col \notin {"label", "is_anomaly", "entity_name",
                                       "transaction_id"})

\* headers of training CSVs: the one generate_training_labels.py writes
\* (lines 45-83), one with two feature columns exchanged, one without the
\* fraud_flags column
TrainingColumns ==
    { FEATURE_COLUMNS \o << "label", "entity_name" >>,
      << "total_exposure", "transaction_count" >>
          \o SubSeq(FEATURE_COLUMNS, 3, 12) \o << "label" >>,
      << "entity_name" >> \o SubSeq(FEATURE_COLUMNS, 1, 11)
          \o << "is_anomaly" >> }

\* the objects joblib.load can give: the dict train_xgboost_model dumps
\* (train_model.py lines 149-160), or a bare classifier fitted on the same
\* columns
Artifacts ==
    { [kind |-> k, feature_cols |-> feature_cols_of(c)] :
        k \in {"dict", "estimator"}, c \in TrainingColumns }

\* score_entity.py line 80: the exception model.predict_proba(X) raises for
\* the 12-column X, or NoStr when it returns: a dict has no predict_proba,
\* and a classifier checks the number of columns of X, not their order
predict_error(artifact) ==
    IF artifact.kind = "dict"
    THEN "AttributeError"
    ELSE IF Len(artifact.feature_cols) # Len(FEATURE_COLUMNS)
    THEN "ValueError"
    ELSE NoStr

\* score_entity.py lines 98-105: the keys of the dict returned
RiskKeys ==
    {"entity_name", "risk_score", "risk_level", "risk_factors", "features",
     "recommendation"}

\* score_entity.py lines 65-105: the dict returned for features with the
\* given transaction_count and classifier probability risk_score
score_result(tx_count, risk_score) ==
    IF tx_count = 0
    THEN [none |-> FALSE, risk_score |-> Rat(5, 10),
          risk_level |-> "unknown",
          recommendation |-> "REVIEW - New entity, no history",
          keys |-> RiskKeys]
    ELSE IF RatGE(risk_score, Rat(7, 10))
    THEN [none |-> FALSE, risk_score |-> risk_score, risk_level |-> "high",
          recommendation |-> "BLOCK - High risk entity",
          keys |-> RiskKeys]
    ELSE IF RatGE(risk_score, Rat(4, 10))
    THEN [none |-> FALSE, risk_score |-> risk_score, risk_level |-> "medium",
          recommendation |-> "REVIEW - Medium risk, manual review required",
          keys |-> RiskKeys]
    ELSE [none |-> FALSE, risk_score |-> risk_score, risk_level |-> "low",
          recommendation |-> "APPROVE - Low risk entity",
          keys |-> RiskKeys]

----------------------------------------------------------------------------
(* extract_features.py: a Python dict is the sequence of its (key, value)  *)
(* pairs in insertion order                                                *)

DictKeys(d) == [i \in 1..Len(d) |-> d[i][1]]

DictGet(d, k) == d[CHOOSE i \in 1..Len(d) : d[i][1] = k][2]

\* the sum of an integer property over a set of LCs
RECURSIVE SumOf(_, _)
SumOf(lcs, field) ==
    IF lcs = {}
    THEN 0
    ELSE LET lc == CHOOSE l \in lcs : TRUE
         IN  lc[field] + SumOf(lcs \ {lc}, field)

\* _get_default_features without the fraud_flags key
default_features_short ==
    << <<"transaction_count", Rat(0, 1)>>,
       <<"total_exposure", Rat(0, 1)>>,
       <<"avg_lc_amount", Rat(0, 1)>>,
       <<"discrepancy_rate", Rat(0, 1)>>,
       <<"late_shipment_rate", Rat(0, 1)>>,
       <<"payment_delay_avg", Rat(0, 1)>>,
       <<"counterparty_diversity", Rat(0, 1)>>,
       <<"high_risk_country_exposure", Rat(0, 1)>>,
       <<"sanctions_exposure", Rat(0, 1)>>,
       <<"doc_completeness", Rat(1, 1)>>,
       <<"amendment_rate", Rat(0, 1)>> >>

\* lines 220-235
default_features ==
    << <<"transaction_count", Rat(0, 1)>>,
       <<"total_exposure", Rat(0, 1)>>,
       <<"avg_lc_amount", Rat(0, 1)>>,
       <<"discrepancy_rate", Rat(0, 1)>>,
       <<"late_shipment_rate", Rat(0, 1)>>,
       <<"payment_delay_avg", Rat(0, 1)>>,
       <<"counterparty_diversity", Rat(0, 1)>>,
       <<"high_risk_country_exposure", Rat(0, 1)>>,
       <<"sanctions_exposure", Rat(0, 1)>>,
       <<"doc_completeness", Rat(1, 1)>>,
       <<"amendment_rate", Rat(0, 1)>>,
       <<"fraud_flags", Rat(0, 1)>> >>

\* lines 220-221
_get_default_features == default_features

\* per_transaction with 0.0 for every metric of an entity without LCs
per_transaction_zero(x, tx_count, otherwise) ==
    IF tx_count > 0 THEN RatDiv(x, Rat(tx_count, 1)) ELSE Rat(0, 1)

\* "x / tx_count if tx_count > 0 else otherwise" (lines 93-98)
per_transaction(x, tx_count, otherwise) ==
    IF tx_count > 0 THEN RatDiv(x, Rat(tx_count, 1)) ELSE otherwise

\* lines 60-98: the record of the main query over the LCs in the window,
\* and the metrics derived from it
base_metrics(lcs) ==
    LET tx_count == Cardinality(lcs)
        total_exposure == Rat(SumOf(lcs, "amount"), 1)
        discrepancy_count == Rat(SumOf(lcs, "has_discrepancy"), 1)
        late_shipment_count == Rat(SumOf(lcs, "shipment_delayed"), 1)
        total_payment_delay == Rat(SumOf(lcs, "payment_delay_days"), 1)
        amendment_count == Rat(SumOf(lcs, "amended"), 1)
        total_completeness == Rat(SumOf(lcs, "completeness_halves"), 2)
    IN  << <<"tx_count", Rat(tx_count, 1)>>,
           <<"total_exposure", total_exposure>>,
           <<"avg_lc_amount",
             per_transaction(total_exposure, tx_count, Rat(0, 1))>>,
           <<"discrepancy_rate",
             per_transaction(discrepancy_count, tx_count, Rat(0, 1))>>,
           <<"late_shipment_rate",
             per_transaction(late_shipment_count, tx_count, Rat(0, 1))>>,
           <<"payment_delay_avg",
             per_transaction(total_payment_delay, tx_count, Rat(0, 1))>>,
           <<"doc_completeness",
             per_transaction(total_completeness, tx_count, Rat(1, 1))>>,
           <<"amendment_rate",
             per_transaction(amendment_count, tx_count, Rat(0, 1))>> >>

\* lines 147-152 and 184-189: the helper queries counterparties
has_counterparty_type(type) == type \in {"Buyer", "Seller"}

\* the counterparty nodes linked to the LCs
Counterparties(lcs) == {lc.counterparty : lc \in lcs} \ {""}

\* lines 154-162: count(DISTINCT counterparty.name)
_get_counterparty_diversity(type, lcs) ==
    IF has_counterparty_type(type)
    THEN Rat(Cardinality(Counterparties(lcs)), 1)
    ELSE Rat(0, 1)

\* rows of "MATCH ...(lc:LC) OPTIONAL MATCH (lc)-...-(country:Country)":
\* one per country of an LC, one for an LC without countries
RECURSIVE CountryRows(_)
CountryRows(lcs) ==
    IF lcs = {}
    THEN 0
    ELSE LET lc == CHOOSE l \in lcs : TRUE
         IN  Max(1, Len(lc.countries)) + CountryRows(lcs \ {lc})

\* the rows whose country has risk_score >= 7
RECURSIVE HighRiskRows(_)
HighRiskRows(lcs) ==
    IF lcs = {}
    THEN 0
    ELSE LET lc == CHOOSE l \in lcs : TRUE
         IN  Cardinality({i \in 1..Len(lc.countries) : lc.countries[i] >= 7})
                 + HighRiskRows(lcs \ {lc})

\* lines 167-179
_get_high_risk_country_exposure(lcs) ==
    IF CountryRows(lcs) > 0
    THEN Rat(HighRiskRows(lcs), CountryRows(lcs))
    ELSE Rat(0, 1)

\* lines 191-202
_get_sanctions_exposure(type, lcs) ==
    IF has_counterparty_type(type) /\ Counterparties(lcs) # {}
    THEN Rat(Cardinality(Counterparties(lcs) \cap SanctionedCounterparties),
             Cardinality(Counterparties(lcs)))
    ELSE Rat(0, 1)

\* lines 207-217
_get_fraud_flags(lcs) == Rat(SumOf(lcs, "flagged"), 1)

\* lines 120-133
features_of(locals) ==
    << <<"transaction_count", DictGet(locals, "tx_count")>>,
       <<"total_exposure", DictGet(locals, "total_exposure")>>,
       <<"avg_lc_amount", DictGet(locals, "avg_lc_amount")>>,
       <<"discrepancy_rate", DictGet(locals, "discrepancy_rate")>>,
       <<"late_shipment_rate", DictGet(locals, "late_shipment_rate")>>,
       <<"payment_delay_avg", DictGet(locals, "payment_delay_avg")>>,
       <<"counterparty_diversity",
         DictGet(locals, "counterparty_diversity")>>,
       <<"high_risk_country_exposure",
         DictGet(locals, "high_risk_country_exposure")>>,
       <<"sanctions_exposure", DictGet(locals, "sanctions_exposure")>>,
       <<"doc_completeness", DictGet(locals, "doc_completeness")>>,
       <<"amendment_rate", DictGet(locals, "amendment_rate")>>,
       <<"fraud_flags", DictGet(locals, "fraud_flags")>> >>

----------------------------------------------------------------------------
(* Specification of extract_entity_features: one call, query by query,     *)
(* against a graph store in which one of the queries may raise             *)

InitExtract ==
    /\ mode = "extract"
    /\ pc = "start"
    /\ x_type \in ExtractTypes
    /\ x_present \in BOOLEAN
    /\ x_lcs \in {l \in SUBSET LCPool : Cardinality(l) <= MaxTx}
    /\ x_present = FALSE => x_lcs = {}
    /\ x_fail_at \in 0..MaxQueries
    /\ x_queries = 0
    /\ x_driver = "none"
    /\ x_locals = <<>>
    /\ x_features = <<>>
    /\ x_error = NoStr
    /\ NormIdle
    /\ CrIdle
    /\ ScreenIdle
    /\ FmIdle
    /\ BatchIdle
    /\ RiskIdle
    /\ CallsIdle

\* session.run of the next query raises
QueryRaises == x_queries + 1 = x_fail_at

\* lines 138-140: the except branch returns the default features; the
\* finally block is still to run
ExceptBranch ==
    /\ x_features' = _get_default_features
    /\ x_locals' = x_locals
    /\ pc' = "close"

\* line 48: the driver is created; it connects when the first query runs
OpenDriver ==
    /\ mode = "extract" /\ pc = "start"
    /\ x_driver' = "open"
    /\ pc' = "main"
    /\ UNCHANGED <<mode, coreVars, fmVars, batchVars, riskVars, callVars, x_type,
                   x_present, x_lcs, x_fail_at, x_queries, x_locals,
                   x_features, x_error>>

\* lines 51-98: the main query, no record when the entity is absent
MainQuery ==
    /\ mode = "extract" /\ pc = "main"
    /\ x_queries' = x_queries + 1
    /\ IF QueryRaises
       THEN ExceptBranch
       ELSE IF ~x_present
       THEN /\ x_features' = _get_default_features
            /\ x_locals' = x_locals
            /\ pc' = "close"
       ELSE /\ x_locals' = base_metrics(x_lcs)
            /\ x_features' = x_features
            /\ pc' = "diversity"
    /\ UNCHANGED <<mode, coreVars, fmVars, batchVars, riskVars, callVars, x_type,
                   x_present, x_lcs, x_fail_at, x_driver, x_error>>

\* lines 100-103
CounterpartyDiversity ==
    /\ mode = "extract" /\ pc = "diversity"
    /\ x_queries' = IF has_counterparty_type(x_type)
                    THEN x_queries + 1 ELSE x_queries
    /\ IF has_counterparty_type(x_type) /\ QueryRaises
       THEN ExceptBranch
       ELSE /\ x_locals' = Append(x_locals,
                      <<"counterparty_diversity",
                        _get_counterparty_diversity(x_type, x_lcs)>>)
            /\ x_features' = x_features
            /\ pc' = "country"
    /\ UNCHANGED <<mode, coreVars, fmVars, batchVars, riskVars, callVars, x_type,
                   x_present, x_lcs, x_fail_at, x_driver, x_error>>

\* lines 105-108
CountryExposure ==
    /\ mode = "extract" /\ pc = "country"
    /\ x_queries' = x_queries + 1
    /\ IF QueryRaises
       THEN ExceptBranch
       ELSE /\ x_locals' = Append(x_locals,
                      <<"high_risk_country_exposure",
                        _get_high_risk_country_exposure(x_lcs)>>)
            /\ x_features' = x_features
            /\ pc' = "sanctions"
    /\ UNCHANGED <<mode, coreVars, fmVars, batchVars, riskVars, callVars, x_type,
                   x_present, x_lcs, x_fail_at, x_driver, x_error>>

\* lines 110-113
SanctionsExposure ==
    /\ mode = "extract" /\ pc = "sanctions"
    /\ x_queries' = IF has_counterparty_type(x_type)
                    THEN x_queries + 1 ELSE x_queries
    /\ IF has_counterparty_type(x_type) /\ QueryRaises
       THEN ExceptBranch
       ELSE /\ x_locals' = Append(x_locals,
                      <<"sanctions_exposure",
                        _get_sanctions_exposure(x_type, x_lcs)>>)
            /\ x_features' = x_features
            /\ pc' = "fraud"
    /\ UNCHANGED <<mode, coreVars, fmVars, batchVars, riskVars, callVars, x_type,
                   x_present, x_lcs, x_fail_at, x_driver, x_error>>

\* lines 115-136: the last helper, then the dict is built
FraudFlags ==
    /\ mode = "extract" /\ pc = "fraud"
    /\ x_queries' = x_queries + 1
    /\ IF QueryRaises
       THEN ExceptBranch
       ELSE LET locals == Append(x_locals,
                              <<"fraud_flags", _get_fraud_flags(x_lcs)>>)
            IN  /\ x_locals' = locals
                /\ x_features' = features_of(locals)
                /\ pc' = "close"
    /\ UNCHANGED <<mode, coreVars, fmVars, batchVars, riskVars, callVars, x_type,
                   x_present, x_lcs, x_fail_at, x_driver, x_error>>

\* lines 141-142: the finally block, then the return
CloseDriver ==
    /\ mode = "extract" /\ pc = "close"
    /\ x_driver' = "closed"
    /\ pc' = "returned"
    /\ UNCHANGED <<mode, coreVars, fmVars, batchVars, riskVars, callVars, x_type,
                   x_present, x_lcs, x_fail_at, x_queries, x_locals,
                   x_features, x_error>>

NextExtract ==
    \/ OpenDriver
    \/ MainQuery
    \/ CounterpartyDiversity
    \/ CountryExposure
    \/ SanctionsExposure
    \/ FraudFlags
    \/ CloseDriver

SpecExtract == InitExtract /\ [][NextExtract]_vars

----------------------------------------------------------------------------
(* Specification of score_entity_risk: one call, step by step              *)

InitRisk ==
    /\ mode = "risk"
    /\ pc = "start"
    /\ r_model \in ModelStates
    /\ r_artifact \in IF r_model = "ok" THEN Artifacts ELSE {NoArtifact}
    /\ r_store \in StoreStates
    /\ r_tx \in 0..MaxTx
    /\ r_prob \in {Rat(h, 100) : h \in ProbHundredths}
    /\ r_screen \in ScreenOutcomes
    /\ r_queries = 0
    /\ r_features = NoneNum
    /\ r_result = NoRisk
    /\ r_error = NoStr
    /\ NormIdle
    /\ CrIdle
    /\ ScreenIdle
    /\ FmIdle
    /\ BatchIdle
    /\ ExtractIdle
    /\ CallsIdle

\* lines 49-52
CheckModel ==
    /\ mode = "risk" /\ pc = "start"
    /\ pc' = check_model(r_model)
    /\ r_error' = IF check_model(r_model) = "raised"
                  THEN "FileNotFoundError" ELSE r_error
    /\ UNCHANGED <<mode, coreVars, fmVars, batchVars, extractVars, callVars,
                   r_model, r_artifact,
                   r_store, r_tx, r_prob, r_screen, r_queries, r_features, r_result>>

\* lines 54-56: joblib.load raises when the file cannot be read as a model
LoadModel ==
    /\ mode = "risk" /\ pc = "load"
    /\ IF r_model = "ok"
       THEN pc' = "extract" /\ r_error' = r_error
       ELSE pc' = "raised" /\ r_error' = "joblib.load failed"
    /\ UNCHANGED <<mode, coreVars, fmVars, batchVars, extractVars, callVars,
                   r_model, r_artifact,
                   r_store, r_tx, r_prob, r_screen, r_queries, r_features, r_result>>

\* lines 58-63: extract_entity_features queries the graph store
ExtractFeatures ==
    /\ mode = "risk" /\ pc = "extract"
    /\ r_queries' = r_queries + 1
    /\ r_features' = Rat(transaction_count(r_store, r_tx), 1)
    /\ pc' = "score"
    /\ UNCHANGED <<mode, coreVars, fmVars, batchVars, extractVars, callVars,
                   r_model, r_artifact,
                   r_store, r_tx, r_prob, r_screen, r_result, r_error>>

\* lines 65-105: the neutral result for an entity without history, else
\* the prediction, which raises or gives the probability r_prob
ScoreEntity ==
    /\ mode = "risk" /\ pc = "score"
    /\ IF r_features.num # 0 /\ predict_error(r_artifact) # NoStr
       THEN /\ r_error' = predict_error(r_artifact)
            /\ r_result' = r_result
            /\ pc' = "raised"
       ELSE /\ r_result' = score_result(r_features.num, r_prob)
            /\ r_error' = r_error
            /\ pc' = "returned"
    /\ UNCHANGED <<mode, coreVars, fmVars, batchVars, extractVars, callVars,
                   r_model, r_artifact,
                   r_store, r_tx, r_prob, r_screen, r_queries, r_features>>

NextRisk ==
    \/ CheckModel
    \/ LoadModel
    \/ ExtractFeatures
    \/ ScoreEntity

SpecRisk == InitRisk /\ [][NextRisk]_vars

----------------------------------------------------------------------------
(* Specification of two screen_entity calls with the same arguments that   *)
(* run concurrently against one graph store; each call has its own locals, *)
(* and a query without ORDER BY returns its rows in any order              *)

Calls == {1, 2}

\* the orders in which a query can return n rows
Orders(n) ==
    {p \in [1..n -> 1..n] : \A i, j \in 1..n : i # j => p[i] # p[j]}

InitCalls ==
    /\ mode = "calls"
    /\ pc = "start"
    /\ entity_name \in RepeatNames
    /\ entity_country \in RepeatCountries
    /\ entity_type = "Entity"
    /\ fuzzy_threshold_arg = NoneNum
    /\ check_network \in BOOLEAN
    /\ sanctions \in SeqsUpTo(RepeatPool, MaxSanctions)
    /\ network_path \in BOOLEAN
    /\ fuzzy_threshold = NoneNum
    /\ result = InitialResult(NoStr, NoStr, NoStr)
    /\ steps = <<>>
    /\ call_pc = [c \in Calls |-> "start"]
    /\ call_result = [c \in Calls |-> InitialResult(NoStr, NoStr, NoStr)]
    /\ NormIdle
    /\ CrIdle
    /\ FmIdle
    /\ BatchIdle
    /\ RiskIdle
    /\ ExtractIdle

\* lines 33-60
CallBegin(c) ==
    /\ mode = "calls" /\ call_pc[c] = "start"
    /\ call_result' = [call_result EXCEPT ![c] =
          InitialResult(entity_name, entity_country, entity_type)]
    /\ call_pc' = [call_pc EXCEPT ![c] = "match"]
    /\ UNCHANGED <<mode, pc, coreVars, fmVars, batchVars, riskVars,
                   extractVars>>

\* lines 64-108, Steps 1 and 2: the exact query returns any one matching
\* row, the fuzzy query returns the records in any order
CallMatch(c) ==
    /\ mode = "calls" /\ call_pc[c] = "match"
    /\ LET normalized_name == normalize_name(PyStr(entity_name))
           rows == ExactRows(sanctions, normalized_name)
           threshold == IF fuzzy_threshold_arg.none THEN FUZZY_THRESHOLD
                                                    ELSE fuzzy_threshold_arg
       IN  IF rows # {}
           THEN \E i \in rows :
                   call_result' = [call_result EXCEPT ![c] =
                       ExactUpdate(call_result[c], sanctions[i])]
           ELSE \E p \in Orders(Len(sanctions)) :
                   LET sanctions_records ==
                           [i \in 1..Len(sanctions) |-> sanctions[p[i]]]
                   IN  call_result' = [call_result EXCEPT ![c] =
                           Eager(fuzzy_match_sanctions(PyStr(entity_name),
                                     sanctions_records, threshold),
                                 LAMBDA fuzzy_result :
                                    IF fuzzy_result.found
                                    THEN FuzzyUpdate(call_result[c],
                                        sanctions_records[fuzzy_result.index],
                                        fuzzy_result.score)
                                    ELSE call_result[c])]
    /\ call_pc' = [call_pc EXCEPT ![c] = "rest"]
    /\ UNCHANGED <<mode, pc, coreVars, fmVars, batchVars, riskVars,
                   extractVars>>

\* lines 110-131, Steps 3 and 4
CallRest(c) ==
    /\ mode = "calls" /\ call_pc[c] = "rest"
    /\ call_result' = [call_result EXCEPT ![c] =
          CountryUpdate(NetworkUpdate(call_result[c], check_network,
                                      network_path),
                        entity_country)]
    /\ call_pc' = [call_pc EXCEPT ![c] = "return"]
    /\ UNCHANGED <<mode, pc, coreVars, fmVars, batchVars, riskVars,
                   extractVars>>

\* lines 133-140
CallReturn(c) ==
    /\ mode = "calls" /\ call_pc[c] = "return"
    /\ \E t \in TimeValues :
          call_result' = [call_result EXCEPT ![c] =
              [call_result[c] EXCEPT !.screening_time_ms = Rat(t, 1)]]
    /\ call_pc' = [call_pc EXCEPT ![c] = "done"]
    /\ UNCHANGED <<mode, pc, coreVars, fmVars, batchVars, riskVars,
                   extractVars>>

NextCalls ==
    \E c \in Calls :
        \/ CallBegin(c)
        \/ CallMatch(c)
        \/ CallRest(c)
        \/ CallReturn(c)

SpecCalls == InitCalls /\ [][NextCalls]_vars

----------------------------------------------------------------------------
(* Properties *)

\* the upper-case and lower-case form of each letter
LetterPairs ==
    {{Ch(UpperLetters, i), Ch(LowerLetters, i)} : i \in 1..Len(UpperLetters)}

\* c and d are the same letter up to case, or the same character
SameLetter(c, d) == c = d \/ {c, d} \in LetterPairs

\* a and b are equal up to letter case
EqualIgnoreCase(a, b) ==
    /\ Len(a) = Len(b)
    /\ \A i \in 1..Len(a) : SameLetter(Ch(a, i), Ch(b, i))

\* the table keys a code denotes, up to letter case
TableKeys(code) ==
    {k \in DOMAIN COUNTRY_RISK_SCORES : EqualIgnoreCase(code, k)}

\* the score at or above which the screener treats a country as high risk
ScoresHigh(code) ==
    \E k \in TableKeys(code) : COUNTRY_RISK_SCORES[k][1] >= 8

Screening == mode = "screen"
AfterExact == Screening /\ pc \in {"fuzzy", "network", "country", "return", "done"}
AfterFuzzy == Screening /\ pc \in {"network", "country", "return", "done"}
AfterCountry == Screening /\ pc \in {"return", "done"}
Returned == Screening /\ pc = "done"

\* the exact query of Step 1 returns a record
ExactHit ==
    ExactRows(sanctions, normalize_name(PyStr(entity_name))) # {}

\* C1: once the exact-match step has hit, the recommendation is BLOCK at
\* every later point of screen_entity and in the returned result, for
\* every country, every check_network and every graph content.
C1_ExactMatchBlocks ==
    (AfterFuzzy /\ ExactHit) => result.recommendation = "BLOCK"

\* an exact hit is returned for a high-risk country with the network check
\* on and a network path in the graph
C1_Witness ==
    /\ Returned /\ ExactHit
    /\ check_network /\ network_path
    /\ entity_country = "ir"
    /\ result.recommendation = "BLOCK"

\* C2: the country-risk step turns APPROVE into REVIEW when the country
\* scores 8 or more and leaves every other recommendation as it was; so a
\* country scoring 8 or more never ends with APPROVE.
C2_CountryOnlyTightens ==
    /\ [][(Screening /\ pc = "country") =>
            result'.recommendation =
                IF ScoresHigh(entity_country)
                   /\ result.recommendation = "APPROVE"
                THEN "REVIEW"
                ELSE result.recommendation]_vars
    /\ []((AfterCountry /\ ScoresHigh(entity_country))
            => result.recommendation # "APPROVE")

\* a clean entity of a high-risk country leaves the country step with REVIEW
C2_Witness ==
    /\ AfterCountry /\ ScoresHigh(entity_country)
    /\ ~result.sanctions_match /\ ~result.network_exposure
    /\ result.recommendation = "REVIEW"

\* the best similarity, on the 0-100 scale, between the normalized query
\* and any normalized reference name reaches 85
BestSimilarityReaches85 ==
    \E i \in 1..Len(sanctions) :
        RatGE(scorer(normalize_name(PyStr(entity_name)),
                     normalize_name(PyStr(sanctions[i].name))),
              Rat(85, 1))

\* C3: called without a custom fuzzy_threshold, the fuzzy step reports a
\* match only if the best similarity is at least 85 of 100.
C3_DefaultThresholdIs85 ==
    (AfterFuzzy /\ fuzzy_threshold_arg.none
        /\ result.match_type = PyStr("fuzzy"))
    => BestSimilarityReaches85

\* C4: a fuzzy match with score s gives BLOCK if s >= 0.95 and REVIEW if
\* s < 0.95, the value 0.95 itself giving BLOCK.
C4_FuzzyRecommendation ==
    (AfterFuzzy /\ result.match_type = PyStr("fuzzy"))
    => result.recommendation =
          IF 100 * result.match_score.num >= 95 * result.match_score.den
          THEN "BLOCK" ELSE "REVIEW"

\* a fuzzy match with score exactly 0.95 is returned as BLOCK
C4_Witness ==
    /\ Returned
    /\ result.match_type = PyStr("fuzzy")
    /\ 100 * result.match_score.num = 95 * result.match_score.den
    /\ result.recommendation = "BLOCK"

\* the entity name equals a sanctions reference name up to letter case
NameOnList ==
    \E i \in 1..Len(sanctions) :
        EqualIgnoreCase(entity_name, sanctions[i].name)

\* C5: an entity name equal to a sanctions reference name up to letter
\* case is returned as an exact match with score 1.0 and BLOCK.
C5_ListedNameIsExact ==
    (Returned /\ NameOnList)
    => /\ result.match_type = PyStr("exact")
       /\ RatEQ(result.match_score, Rat(1, 1))
       /\ result.recommendation = "BLOCK"

\* C6: the returned recommendation is APPROVE iff the result has no
\* sanctions match, no network exposure and a country score below 8; a
\* result without sanctions match and network exposure is never BLOCK.
C6_ApproveIff ==
    Returned =>
       /\ (result.recommendation = "APPROVE")
            <=> (/\ ~result.sanctions_match
                 /\ ~result.network_exposure
                 /\ result.country_risk_score.num < 8)
       /\ (~result.sanctions_match /\ ~result.network_exposure)
            => result.recommendation # "BLOCK"

\* HSBC Hong Kong, HK, with nothing on the list and no network path, is
\* approved
C6_Witness ==
    /\ Returned
    /\ entity_name = "HSBC Hong Kong" /\ entity_country = "HK"
    /\ ~result.sanctions_match /\ ~result.network_exposure
    /\ result.recommendation = "APPROVE"

\* C7: get_country_risk returns score 5, level medium, known = false for a
\* code that is not in the table, and the table's score and level with
\* known = true for a code that is, comparing codes up to letter case.
C7_CountryLookup ==
    (mode = "country" /\ pc \in {"risk", "done"}) =>
        IF TableKeys(cr_code) = {}
        THEN /\ cr_result.risk_score = 5
             /\ cr_result.risk_level = "medium"
             /\ cr_result.known = FALSE
        ELSE \A k \in TableKeys(cr_code) :
                /\ cr_result.risk_score = COUNTRY_RISK_SCORES[k][1]
                /\ cr_result.risk_level = COUNTRY_RISK_SCORES[k][2]
                /\ cr_result.known = TRUE

\* the lower-case code "ir" is looked up as IR
C7_Witness ==
    /\ mode = "country" /\ pc = "done"
    /\ cr_code = "ir"
    /\ cr_result.known /\ cr_result.risk_score = 10

\* C8: is_high_risk_country is true iff the score get_country_risk returns
\* is at least 8, false for every unknown code, and every table entry has
\* a score in 1..10 and level high iff its score is at least 8.
C8_HighRiskIffScore8 ==
    /\ (mode = "country" /\ pc = "done") =>
          /\ cr_high <=> (cr_result.risk_score >= 8)
          /\ TableKeys(cr_code) = {} => ~cr_high
    /\ \A k \in DOMAIN COUNTRY_RISK_SCORES :
          /\ COUNTRY_RISK_SCORES[k][1] \in 1..10
          /\ (COUNTRY_RISK_SCORES[k][2] = "high")
                <=> (COUNTRY_RISK_SCORES[k][1] >= 8)

\* BY, whose score is exactly 8, is high risk
C8_Witness ==
    /\ mode = "country" /\ pc = "done"
    /\ cr_code = "BY"
    /\ cr_result.risk_score = 8
    /\ cr_high

\* C9: normalize_name applied to its own output returns that output.
C9_NormalizeIdempotent ==
    (mode = "normalize" /\ pc = "done") => norm_out2 = norm_out

\* s holds only upper-case letters, digits and single spaces, and neither
\* starts nor ends with a space
CleanName(s) ==
    /\ \A i \in 1..Len(s) :
          \/ IndexIn(Ch(s, i), UpperLetters \o DigitChars) > 0
          \/ Ch(s, i) = " "
    /\ s # "" => (Ch(s, 1) # " " /\ Ch(s, Len(s)) # " ")
    /\ \A i \in 1..(Len(s) - 1) : ~(Ch(s, i) = " " /\ Ch(s, i + 1) = " ")

FuzzyReturned == mode = "fuzzy" /\ pc = "done"

\* the list holds a record whose name is the query name
QueryOnList == \E i \in 1..Len(fm_list) : fm_list[i].name = fm_query

\* C11: every score fuzzy_match_sanctions returns lies in [0,1], and a
\* query whose name is on the list is matched with score 1.0, for every
\* name, the names that normalize to the empty string included.
C11_SelfMatchScoresOne ==
    FuzzyReturned =>
        /\ ~fm_result.none =>
              /\ RatGE(fm_result.score, Rat(0, 1))
              /\ RatGE(Rat(1, 1), fm_result.score)
        /\ QueryOnList =>
              /\ ~fm_result.none
              /\ RatEQ(fm_result.score, Rat(1, 1))

\* similarity, on the 0-100 scale, of the normalized query and the
\* normalized name of the record at position i of the list
ScoreOf(i) ==
    scorer(normalize_name(PyStr(fm_query)),
           normalize_name(PyStr(fm_list[i].name)))

\* position i holds the first of the records with the highest similarity
FirstBest(i) ==
    /\ \A j \in 1..Len(fm_list) : RatGE(ScoreOf(i), ScoreOf(j))
    /\ \A j \in 1..(i - 1) : RatLT(ScoreOf(j), ScoreOf(i))

\* C12: the record fuzzy_match_sanctions returns is the record of the
\* input list at the position of the highest similarity, the first such
\* position when several records share the top score, and the returned
\* score is that similarity.
C12_FirstBestRecord ==
    (FuzzyReturned /\ ~fm_result.none) =>
        \E i \in 1..Len(fm_list) :
            /\ FirstBest(i)
            /\ fm_result.entity = fm_list[i]
            /\ RatEQ(RatMul(fm_result.score, Rat(100, 1)), ScoreOf(i))

\* two different records share a top score below 1.0 and the first one is
\* returned
C12_Witness ==
    /\ FuzzyReturned /\ ~fm_result.none
    /\ Len(fm_list) = 2 /\ fm_list[1] # fm_list[2]
    /\ RatEQ(ScoreOf(1), ScoreOf(2))
    /\ RatLT(fm_result.score, Rat(1, 1))
    /\ fm_result.entity = fm_list[1]

\* the suffixes of the normalizer's strip list, and no suffix
SuffixOrNone == {suffixes[i] : i \in 1..Len(suffixes)} \cup {""}

\* a is its first k characters followed by s, s read up to letter case
EndsAfter(a, k, s) == EqualIgnoreCase(SubSeq(a, k + 1, Len(a)), s)

\* a and b are one base name followed by two different entries of
\* SuffixOrNone
DifferBySuffix(a, b) ==
    \E k \in 0..Len(a) :
        /\ k <= Len(b)
        /\ SubSeq(a, 1, k) = SubSeq(b, 1, k)
        /\ \E s1, s2 \in SuffixOrNone :
              s1 # s2 /\ EndsAfter(a, k, s1) /\ EndsAfter(b, k, s2)

\* C13: at threshold 85, a query that differs from a name on the list only
\* by a trailing legal-entity suffix is matched with a score of at least
\* 0.85.
C13_SuffixVariantsMatch ==
    (/\ FuzzyReturned
     /\ fm_threshold = Rat(85, 1)
     /\ \E i \in 1..Len(fm_list) : DifferBySuffix(fm_query, fm_list[i].name))
    => /\ ~fm_result.none
       /\ RatGE(fm_result.score, Rat(85, 100))

Batching == mode = "batch"

\* batch_screen has returned or raised
BatchEnded == Batching /\ pc \in {"returned", "raised"}

\* positions of the input entities whose name is n
EntitiesNamed(n) ==
    {i \in 1..Len(b_entities) :
        ~b_entities[i].name.none /\ b_entities[i].name.str = n}

\* positions of the results whose entity_name is n
ResultsNamed(n) ==
    {k \in 1..Len(b_results) : b_results[k].entity_name = n}

\* C14: for every list of N >= 0 entities and every interleaving of the
\* worker threads, batch_screen returns a list of exactly N results, one
\* per input entity, whether or not screenings raise.
C14_OneResultPerEntity ==
    BatchEnded =>
        /\ pc = "returned"
        /\ Len(b_results) = Len(b_entities)
        /\ \A i \in 1..Len(b_entities) :
              /\ ~b_entities[i].name.none
              /\ Cardinality(ResultsNamed(b_entities[i].name.str))
                    = Cardinality(EntitiesNamed(b_entities[i].name.str))

\* the screening task of the entity at position i raises
TaskFails(i) ==
    \/ b_entities[i].name.none
    \/ b_entities[i].country.none
    \/ b_entities[i].screening = "fail"

\* positions of the results that carry name n and recommendation r
ResultsWith(n, r) ==
    {k \in 1..Len(b_results) :
        b_results[k].entity_name = n /\ b_results[k].recommendation = r}

\* positions of the entities named n whose result should carry r: ERROR
\* when the task fails, the recommendation of the screening otherwise
EntitiesWith(n, r) ==
    {i \in EntitiesNamed(n) :
        r = IF TaskFails(i) THEN "ERROR" ELSE b_entities[i].screening}

\* C15: when the screening task of some entity fails, for any cause,
\* batch_screen still returns; each failed entity has one result with
\* recommendation ERROR and every other entity has its own result.
C15_FailureIsOneErrorResult ==
    (BatchEnded /\ \E i \in 1..Len(b_entities) : TaskFails(i)) =>
        /\ pc = "returned"
        /\ Len(b_results) = Len(b_entities)
        /\ \A i \in 1..Len(b_entities) :
              /\ ~b_entities[i].name.none
              /\ \A r \in {"APPROVE", "REVIEW", "BLOCK", "ERROR"} :
                    Cardinality(ResultsWith(b_entities[i].name.str, r))
                      = Cardinality(EntitiesWith(b_entities[i].name.str, r))

\* the state of the future of the task at position i, "none" before the
\* task is submitted
FutureState(i) == IF i <= Len(b_future) THEN b_future[i] ELSE "none"

\* C16: the number of screenings executing at once never exceeds
\* max_workers, which is 10 when not given; a submitted task waits in the
\* queue while it is not executing, and every submitted task is
\* eventually executed.
C16_BoundedWorkers ==
    /\ []((Batching /\ pc # "start") =>
            /\ Cardinality(b_running) <= b_max_workers
            /\ b_max_workers_arg.none => b_max_workers = 10
            /\ \A i \in 1..b_submitted :
                  (b_future[i] = "pending")
                    <=> (\E k \in 1..Len(b_queue) : b_queue[k] = i))
    /\ \A i \in 1..MaxBatch :
          (Batching /\ FutureState(i) = "pending")
            ~> (FutureState(i) \in {"result", "exception"})

\* every worker is busy and a submitted task waits in the queue
C16_Witness ==
    /\ Batching /\ pc # "start"
    /\ Cardinality(b_running) = b_max_workers
    /\ b_queue # <<>>

\* score_entity_risk has returned a dict
RiskReturned == mode = "risk" /\ pc = "returned"

\* the entity has transactions in the lookback window, as the scorer sees it
HasHistory == RiskReturned /\ r_features.num > 0

\* the threshold table: category, credit limit and recommendation of a
\* probability p
TableRow(p) ==
    IF RatLT(p, Rat(30, 100))
    THEN [category |-> "low", credit_limit_usd |-> 2000000,
          recommendation |-> "APPROVE"]
    ELSE IF RatLT(p, Rat(70, 100))
    THEN [category |-> "medium", credit_limit_usd |-> 500000,
          recommendation |-> "APPROVE_WITH_CONDITIONS"]
    ELSE [category |-> "high", credit_limit_usd |-> 100000,
          recommendation |-> "REQUIRE_COLLATERAL"]

\* C17: for an entity with transaction history, the result follows the
\* threshold table of its probability: below 0.30 low, 2,000,000 USD and
\* APPROVE; from 0.30 to below 0.70 medium, 500,000 and
\* APPROVE_WITH_CONDITIONS; from 0.70 high, 100,000 and REQUIRE_COLLATERAL.
C17_ThresholdTable ==
    HasHistory =>
        /\ r_result.risk_score = r_prob
        /\ r_result.risk_level = TableRow(r_prob).category
        /\ "credit_limit_usd" \in r_result.keys
        /\ r_result.recommendation = TableRow(r_prob).recommendation

\* the recommendation names BLOCK
ReflectsBlock(recommendation) ==
    \E i \in 1..Len(recommendation) :
        i + 4 <= Len(recommendation)
        /\ SubSeq(recommendation, i, i + 4) = "BLOCK"

\* C18: when the screener returns BLOCK for the entity, the recommendation
\* of the scoring result for the same entity reflects BLOCK, whatever the
\* classifier probability is.
C18_BlockOverrides ==
    (RiskReturned /\ r_screen = "BLOCK") =>
        ReflectsBlock(r_result.recommendation)

\* C19: every result returned has a probability in [0,1] and a category
\* among low, medium and high, on every return path, the zero-transaction
\* path included.
C19_ResultInRange ==
    RiskReturned =>
        /\ RatGE(r_result.risk_score, Rat(0, 1))
        /\ RatGE(Rat(1, 1), r_result.risk_score)
        /\ r_result.risk_level \in {"low", "medium", "high"}

\* C20: when the file at model_path does not exist, score_entity_risk
\* raises FileNotFoundError before any graph-store query is issued and
\* returns no result.
C20_FailsFast ==
    (mode = "risk" /\ r_model = "missing") =>
        /\ pc \in {"start", "raised"}
        /\ pc = "raised" => r_error = "FileNotFoundError"
        /\ r_queries = 0
        /\ r_result = NoRisk

\* the call has raised for a missing model file, in front of a store that
\* has the entity
C20_Witness ==
    /\ mode = "risk" /\ pc = "raised"
    /\ r_model = "missing"
    /\ r_store = "found" /\ r_tx > 0
    /\ r_error = "FileNotFoundError"
    /\ r_queries = 0

\* score_entity_risk has ended with a model file that could be loaded
ScoredWithArtifact ==
    mode = "risk" /\ r_model = "ok" /\ pc \in {"returned", "raised"}

\* C21: the call raises whenever the feature list the loaded artifact
\* expects differs from FEATURE_COLUMNS in length or order, and otherwise
\* obtains a result from the artifact; the artifact train_xgboost_model
\* writes is either scored with matching features or rejected.
C21_FeatureVectorChecked ==
    ScoredWithArtifact =>
        IF r_artifact.feature_cols = FEATURE_COLUMNS
        THEN pc = "returned"
        ELSE pc = "raised"

\* extract_entity_features has returned
ExtractReturned == mode = "extract" /\ pc = "returned"

\* a query of the call has raised
StoreFailed == x_fail_at # 0 /\ x_queries >= x_fail_at

\* the value of a feature of the dict returned
Feature(k) == DictGet(x_features, k)

\* C22: for an entity with zero transactions in the window, and for an
\* entity absent from the graph, extract_entity_features raises nothing and
\* returns transaction_count 0 and doc_completeness 1.0.
C22_ZeroTransactionsDefault ==
    (mode = "extract" /\ (~x_present \/ x_lcs = {})) =>
        /\ pc # "raised"
        /\ x_error = NoStr
        /\ pc = "returned" =>
              /\ Feature("transaction_count") = Rat(0, 1)
              /\ Feature("doc_completeness").den # 0
              /\ RatEQ(Feature("doc_completeness"), Rat(1, 1))

\* the entity is in the graph without LCs, no query raised, and the call
\* has returned
C22_Witness ==
    /\ ExtractReturned
    /\ x_present /\ x_lcs = {} /\ x_fail_at = 0
    /\ x_queries >= 3
    /\ Feature("transaction_count") = Rat(0, 1)

\* C23: on every return path the dict returned has exactly the 12 keys of
\* FEATURE_COLUMNS, in that order.
C23_TwelveNamedFields ==
    ExtractReturned => DictKeys(x_features) = FEATURE_COLUMNS

\* the call has returned the default vector for an entity that is not in
\* the graph
C23_Witness ==
    /\ ExtractReturned
    /\ ~x_present /\ x_fail_at = 0
    /\ Len(x_features) = 12

\* a number in [0,1]
InUnit(v) == RatGE(v, Rat(0, 1)) /\ RatGE(Rat(1, 1), v)

\* a number >= 0
NonNegative(v) == RatGE(v, Rat(0, 1))

\* C24: every rate of the vector returned, counterparty_diversity
\* included, is in [0,1]; every count or total is >= 0; avg_lc_amount is
\* total_exposure / transaction_count for a positive transaction_count and
\* 0 otherwise.
C24_RatesAndCountsBounded ==
    ExtractReturned =>
        /\ \A k \in {"discrepancy_rate", "late_shipment_rate",
                     "amendment_rate", "high_risk_country_exposure",
                     "sanctions_exposure", "doc_completeness",
                     "counterparty_diversity"} : InUnit(Feature(k))
        /\ \A k \in {"transaction_count", "total_exposure", "avg_lc_amount",
                     "payment_delay_avg", "fraud_flags"} :
              NonNegative(Feature(k))
        /\ IF Feature("transaction_count").num > 0
           THEN RatEQ(Feature("avg_lc_amount"),
                      RatDiv(Feature("total_exposure"),
                             Feature("transaction_count")))
           ELSE Feature("avg_lc_amount") = Rat(0, 1)

\* C25: when a query of the extraction raises, extract_entity_features
\* surfaces the failure to its caller after at most one retry and returns no
\* feature vector in place of the error.
C25_StoreFailureSurfaces ==
    (mode = "extract" /\ StoreFailed) =>
        /\ x_features = <<>>
        /\ pc # "returned"

\* the result is tagged as degraded or as an error
Tagged(r) == r.recommendation \in {"ERROR", "DEGRADED"} \/ ~r.error.none

\* C26: in a batch that has returned, the result of an entity whose
\* screening took longer than TIMEOUT_MS is tagged as degraded or error.
C26_SlowEntityIsTagged ==
    (Batching /\ pc = "returned") =>
        \A k \in 1..Len(b_results) :
            (~b_results[k].screening_time_ms.none
             /\ b_results[k].screening_time_ms.num > TIMEOUT_MS)
                => Tagged(b_results[k])

\* the tasks whose screen_entity call created a driver
WithDriver == DOMAIN b_driver_of

\* C29: every screen_entity call has a driver of its own, which stays open
\* while the call runs and is closed when the call has returned or raised;
\* once batch_screen has ended no driver is open.
C29_OwnDriverClosed ==
    Batching =>
        /\ \A i, j \in WithDriver :
              i # j => b_driver_of[i] # b_driver_of[j]
        /\ \A i \in WithDriver :
              IF i \in b_running
              THEN b_driver_of[i] \in b_open
              ELSE b_driver_of[i] \notin b_open
        /\ BatchEnded => b_open = {}

\* batch_screen has returned after two calls created a driver each, one of
\* them ending with a failing query
C29_Witness ==
    /\ Batching /\ pc = "returned"
    /\ b_opened >= 2
    /\ \E i \in WithDriver : b_future[i] = "exception"
    /\ b_open = {}

\* a is an initial part of b
IsPrefix(a, b) == Len(a) <= Len(b) /\ a = SubSeq(b, 1, Len(a))

\* the orders in which a call can run its steps
StepOrders ==
    { <<"exact", "country">>,
      <<"exact", "fuzzy", "country">>,
      <<"exact", "fuzzy", "network", "country">> }

\* the step has run
Ran(step) == \E i \in 1..Len(steps) : steps[i] = step

\* C28: the steps of screen_entity run in a fixed order: the fuzzy query
\* is issued only after the exact step missed, the network query only
\* after both missed with check_network true, and the country-risk step
\* last on every path; a network hit sets network_exposure with a
\* recommendation of at least REVIEW, so network_exposure implies
\* sanctions_match = false.
C28_StepsGated ==
    Screening =>
        /\ \E o \in StepOrders : IsPrefix(steps, o)
        /\ Ran("fuzzy") => result.match_type # PyStr("exact")
        /\ Ran("network") => check_network /\ ~result.sanctions_match
        /\ AfterCountry => steps[Len(steps)] = "country"
        /\ result.network_exposure =>
              /\ Ran("network")
              /\ ~result.sanctions_match
              /\ result.recommendation \in {"REVIEW", "BLOCK"}

\* a call has returned after the exact and the fuzzy step missed and the
\* network query hit
C28_Witness ==
    /\ Returned
    /\ steps = <<"exact", "fuzzy", "network", "country">>
    /\ result.network_exposure
    /\ result.recommendation = "REVIEW"

\* C30: every result returned is consistent: the recommendation is
\* APPROVE, REVIEW or BLOCK; sanctions_match holds exactly when match_type
\* is exact or fuzzy, and then matched_entity and match_score are set; an
\* exact match has score 1.0; the recommendation is BLOCK exactly for an
\* exact match and for a fuzzy match of score >= 0.95.
C30_ResultConsistent ==
    Returned =>
        /\ result.recommendation \in {"APPROVE", "REVIEW", "BLOCK"}
        /\ result.sanctions_match
              <=> result.match_type \in {PyStr("exact"), PyStr("fuzzy")}
        /\ ~result.sanctions_match => result.match_type = PyNone
        /\ result.sanctions_match =>
              ~result.matched_entity.none /\ ~result.match_score.none
        /\ result.match_type = PyStr("exact") =>
              result.match_score = Rat(1, 1)
        /\ (result.recommendation = "BLOCK")
              <=> \/ result.match_type = PyStr("exact")
                  \/ /\ result.match_type = PyStr("fuzzy")
                     /\ RatGE(result.match_score, Rat(95, 100))

\* an exact match has been returned for an entity of a low-risk country
C30_Witness ==
    /\ Returned
    /\ result.match_type = PyStr("exact")
    /\ result.match_score = Rat(1, 1)
    /\ result.recommendation = "BLOCK"
    /\ entity_country = "HK"

\* both calls have returned
BothReturned == mode = "calls" /\ \A c \in Calls : call_pc[c] = "done"

\* the result without its screening_time_ms
Timeless(r) == [r EXCEPT !.screening_time_ms = NoneNum]

\* C27: screen_entity leaves the graph store unchanged, and two calls with
\* the same arguments against the same store, run one after the other or
\* concurrently, return results that are equal in every field except
\* screening_time_ms.
C27_ReadOnlyIdempotent ==
    /\ [][sanctions' = sanctions /\ network_path' = network_path]_vars
    /\ [](BothReturned =>
            Timeless(call_result[1]) = Timeless(call_result[2]))

====
